---------------------------- MODULE Spec2Model ----------------------------
(***************************************************************************)
(* A model of the timetable scheduling engine: the constraint manager      *)
(* (booking state with five indices, can_assign, make_assignment), the     *)
(* resource manager (candidate rooms and candidate slots) and the          *)
(* placement loop of the scheduling engine (attempts, best tracking).      *)
(*                                                                         *)
(* Times of day are minutes since midnight (09:30 = 570), a Day is the     *)
(* value of the Day enum (SUNDAY = 0, MONDAY = 1, ...).  A TimePreference  *)
(* is the record [day, start_time, end_time].  A Python dict is a function *)
(* whose DOMAIN is the set of its keys, a list is a sequence.              *)
(***************************************************************************)
EXTENDS Integers, Sequences, FiniteSets, TLC

VARIABLES
    input,                \* halls, labs, course assignments, study plans
    state,                \* SchedulerState: the five indices
    current_assignments,  \* ConstraintManager.current_assignments
    last,                 \* the last constraint-manager call and its result
    pc,                   \* position of schedule_blocks
    attempt,              \* the attempt loop's counter
    sorted_blocks,        \* the attempt's priority order
    idx,                  \* position in sorted_blocks (next block to place)
    scheduled_count,
    best_assignments,
    best_score,           \* a fraction [num, den] of hundredths
    best_count,
    executed,             \* history: the attempts executed so far, in order
    runs,                 \* history: the outcomes of the earlier schedule_blocks calls
    step,                 \* position of ScheduleGenerationEngine.run
    result,               \* what run returned: "none" while it runs
    steps_run,            \* history: the steps of run entered so far, in order
    validation_errors,    \* the errors the input validation reported
    run_assignments,      \* ScheduleGenerationEngine.assignments
    posts,                \* history: the outcome of each post_schedule_to_backend call
    posted                \* what post_schedule_with_retry returned: "none" if not called

vars == <<input, state, current_assignments, last, pc, attempt, sorted_blocks,
          idx, scheduled_count, best_assignments, best_score, best_count, executed,
          runs, step, result, steps_run, validation_errors, run_assignments, posts,
          posted>>

pipevars == <<step, result, steps_run, validation_errors, run_assignments, posts, posted>>

cmvars == <<state, current_assignments>>

enginevars == <<pc, attempt, sorted_blocks, idx, scheduled_count,
                best_assignments, best_score, best_count, executed>>

---------------------------------------------------------------------------
(* Generic helpers for dicts and lists.                                    *)

EmptyDict == << >>

Put(f, k, v) == [x \in (DOMAIN f) \cup {k} |-> IF x = k THEN v ELSE f[x]]

Range(s) == {s[i] : i \in DOMAIN s}

RECURSIVE SeqFilter(_, _)
SeqFilter(s, keep) ==
    IF s = << >> THEN << >>
    ELSE IF Head(s) \in keep THEN <<Head(s)>> \o SeqFilter(Tail(s), keep)
    ELSE SeqFilter(Tail(s), keep)

Abs(x) == IF x < 0 THEN -x ELSE x

---------------------------------------------------------------------------
(* Time.                                                                   *)

SUNDAY == 0
MONDAY == 1
TUESDAY == 2
WEDNESDAY == 3
THURSDAY == 4

Hour(t) == t \div 60

AtHour(h) == h * 60

\* ResourceManager.time_slot_duration (hours)
time_slot_duration == 2

TimePreference(d, s, e) == [day |-> d, start_time |-> s, end_time |-> e]

SlotKey(ts) == <<ts.day, ts.start_time>>

---------------------------------------------------------------------------
(* Rooms, staff, blocks, assignments.                                      *)

Hall(id, capacity, availability) ==
    [kind |-> "hall", id |-> id, capacity |-> capacity,
     availability |-> availability, used_in_non_specialist_courses |-> TRUE]

Lab(id, capacity, availability, used) ==
    [kind |-> "lab", id |-> id, capacity |-> capacity,
     availability |-> availability, used_in_non_specialist_courses |-> used]

get_room_key(room) == <<room.kind, room.id>>

Lecturer(id, prefs) == [kind |-> "lecturer", id |-> id, timing_preferences |-> prefs]

TeachingAssistant(id, prefs) == [kind |-> "ta", id |-> id, timing_preferences |-> prefs]

Assignment(block, slot, room) == [block |-> block, time_slot |-> slot, room |-> room]


---------------------------------------------------------------------------
(* Constraint manager: state.  cm = [state, current_assignments].          *)

create_empty ==
    [room_bookings |-> EmptyDict, staff_bookings |-> EmptyDict,
     course_slots |-> EmptyDict, level_slots |-> EmptyDict,
     study_plan_slots |-> EmptyDict]

initialize_fresh_state == [state |-> create_empty, current_assignments |-> EmptyDict]

\* TRUE iff _verify_no_conflicts_before_commit raises
verify_no_conflicts_before_commit_raises(cm, new_assignment) ==
    LET day == new_assignment.time_slot.day
        time == new_assignment.time_slot.start_time
        room_key == get_room_key(new_assignment.room)
        staff_id == new_assignment.block.staff_member.id
    IN \E block_id \in DOMAIN cm.current_assignments :
          LET assignment == cm.current_assignments[block_id]
          IN /\ assignment.time_slot.day = day
             /\ assignment.time_slot.start_time = time
             /\ \/ get_room_key(assignment.room) = room_key
                \/ assignment.block.staff_member.id = staff_id

Raised(cm) == [raised |-> TRUE, cm |-> cm]

Returned(cm) == [raised |-> FALSE, cm |-> cm]

\* the last index updates with the study_plan_slots update left out
add_other_tracking_no_study_plan(cm, block_id, assignment) ==
    LET block == assignment.block
        slot_key == SlotKey(assignment.time_slot)
        code == block.course_object.course_code
        cs == cm.state.course_slots
        per_code == IF code \in DOMAIN cs THEN cs[code] ELSE EmptyDict
        level_key == <<block.academic_list, block.academic_level>>
        ls == cm.state.level_slots
        per_level == IF level_key \in DOMAIN ls THEN ls[level_key] ELSE EmptyDict
        day == assignment.time_slot.day
        times == IF day \in DOMAIN per_level THEN per_level[day] ELSE << >>
    IN [cm EXCEPT
          !.state.course_slots =
              Put(cs, code, Put(per_code, slot_key,
                  (IF slot_key \in DOMAIN per_code THEN per_code[slot_key] ELSE 0) + 1)),
          !.state.level_slots =
              Put(ls, level_key,
                  Put(per_level, day, Append(times, assignment.time_slot.start_time)))]

\* _add_to_state, lines 197-220: course_slots, level_slots, study_plan_slots
add_other_tracking(cm, block_id, assignment) ==
    LET block == assignment.block
        st == cm.state
        slot_key == SlotKey(assignment.time_slot)
        day == assignment.time_slot.day
        code == block.course_object.course_code
        cs0 == IF code \in DOMAIN st.course_slots THEN st.course_slots
               ELSE Put(st.course_slots, code, EmptyDict)
        cs1 == Put(cs0, code,
                   Put(cs0[code], slot_key,
                       (IF slot_key \in DOMAIN cs0[code] THEN cs0[code][slot_key] ELSE 0) + 1))
        level_key == <<block.academic_list, block.academic_level>>
        ls0 == IF level_key \in DOMAIN st.level_slots THEN st.level_slots
               ELSE Put(st.level_slots, level_key, EmptyDict)
        ls1 == IF day \in DOMAIN ls0[level_key] THEN ls0
               ELSE Put(ls0, level_key, Put(ls0[level_key], day, << >>))
        ls2 == Put(ls1, level_key,
                   Put(ls1[level_key], day,
                       Append(ls1[level_key][day], assignment.time_slot.start_time)))
        study_plan_key == <<block.academic_list, day, assignment.time_slot.start_time>>
        sp0 == IF study_plan_key \in DOMAIN st.study_plan_slots THEN st.study_plan_slots
               ELSE Put(st.study_plan_slots, study_plan_key, << >>)
        sp1 == Put(sp0, study_plan_key, Append(sp0[study_plan_key], block_id))
    IN [cm EXCEPT !.state.course_slots = cs1,
                  !.state.level_slots = ls2,
                  !.state.study_plan_slots = sp1]

\* _add_to_state, lines 183-194: staff bookings, then the remaining indices.
\* Reading block.course_object.course_code raises when course_object is None.
add_staff_booking(cm, block_id, assignment) ==
    LET slot_key == SlotKey(assignment.time_slot)
        staff_id == assignment.block.staff_member.id
        sb0 == IF staff_id \in DOMAIN cm.state.staff_bookings THEN cm.state.staff_bookings
               ELSE Put(cm.state.staff_bookings, staff_id, EmptyDict)
        cm0 == [cm EXCEPT !.state.staff_bookings = sb0]
        cm1 == [cm EXCEPT !.state.staff_bookings =
                              Put(sb0, staff_id, Put(sb0[staff_id], slot_key, block_id))]
    IN IF slot_key \in DOMAIN sb0[staff_id] THEN Raised(cm0)
       ELSE IF assignment.block.course_object.is_none THEN Raised(cm1)
       ELSE Returned(add_other_tracking(cm1, block_id, assignment))

\* _add_to_state, lines 168-181: store the assignment, room bookings
add_room_booking(cm, block_id, assignment) ==
    LET slot_key == SlotKey(assignment.time_slot)
        room_key == get_room_key(assignment.room)
        cmA == [cm EXCEPT !.current_assignments =
                              Put(cm.current_assignments, block_id, assignment)]
        rb0 == IF room_key \in DOMAIN cmA.state.room_bookings THEN cmA.state.room_bookings
               ELSE Put(cmA.state.room_bookings, room_key, EmptyDict)
        cm0 == [cmA EXCEPT !.state.room_bookings = rb0]
        cm1 == [cmA EXCEPT !.state.room_bookings =
                               Put(rb0, room_key, Put(rb0[room_key], slot_key, block_id))]
    IN IF slot_key \in DOMAIN rb0[room_key] THEN Raised(cm0)
       ELSE add_staff_booking(cm1, block_id, assignment)

\* an _add_to_state that stores and overwrites without any conflict check
add_to_state_unchecked(cm, block_id, assignment) ==
    LET slot_key == SlotKey(assignment.time_slot)
        room_key == get_room_key(assignment.room)
        staff_id == assignment.block.staff_member.id
        rb == cm.state.room_bookings
        sb == cm.state.staff_bookings
        cm1 == [cm EXCEPT
                  !.current_assignments = Put(cm.current_assignments, block_id, assignment),
                  !.state.room_bookings =
                      Put(rb, room_key,
                          Put(IF room_key \in DOMAIN rb THEN rb[room_key] ELSE EmptyDict,
                              slot_key, block_id)),
                  !.state.staff_bookings =
                      Put(sb, staff_id,
                          Put(IF staff_id \in DOMAIN sb THEN sb[staff_id] ELSE EmptyDict,
                              slot_key, block_id))]
    IN IF assignment.block.course_object.is_none THEN Raised(cm1)
       ELSE Returned(add_other_tracking(cm1, block_id, assignment))

\* ConstraintManager._add_to_state: [raised, cm], cm as the exception (if any) left it
add_to_state(cm, block_id, assignment) ==
    IF verify_no_conflicts_before_commit_raises(cm, assignment) THEN Raised(cm)
    ELSE IF block_id \in DOMAIN cm.current_assignments THEN Raised(cm)
    ELSE add_room_booking(cm, block_id, assignment)

\* a rollback that restores the indices but keeps the mutated assignments map
make_assignment_keeps_assignments(cm, block_id, assignment) ==
    IF block_id \in DOMAIN cm.current_assignments THEN [ret |-> FALSE, cm |-> cm]
    ELSE LET r == add_to_state(cm, block_id, assignment)
         IN IF r.raised
            THEN [ret |-> FALSE,
                  cm |-> [state |-> cm.state,
                          current_assignments |-> r.cm.current_assignments]]
            ELSE [ret |-> TRUE, cm |-> r.cm]

\* a make_assignment that records the new assignment over the one the block
\* id already has
make_assignment_overwrites(cm, block_id, assignment) ==
    LET r == IF block_id \in DOMAIN cm.current_assignments
             THEN add_to_state_unchecked(cm, block_id, assignment)
             ELSE add_to_state(cm, block_id, assignment)
    IN IF r.raised THEN [ret |-> FALSE, cm |-> cm]
       ELSE [ret |-> TRUE, cm |-> r.cm]

\* ConstraintManager.make_assignment: [ret, cm]
make_assignment(cm, block_id, assignment) ==
    LET current_state_snapshot == cm.state
        current_assignments_snapshot == cm.current_assignments
    IN IF block_id \in DOMAIN cm.current_assignments THEN [ret |-> FALSE, cm |-> cm]
       ELSE LET r == add_to_state(cm, block_id, assignment)
            IN IF r.raised
               THEN [ret |-> FALSE,
                     cm |-> [state |-> current_state_snapshot,
                             current_assignments |-> current_assignments_snapshot]]
               ELSE [ret |-> TRUE, cm |-> r.cm]

---------------------------------------------------------------------------
(* Constraint manager: hard constraints.                                   *)

check_room_booking(cm, block, slot, room) ==
    LET slot_key == SlotKey(slot)
        room_key == get_room_key(room)
    IN IF room_key \notin DOMAIN cm.state.room_bookings THEN TRUE
       ELSE slot_key \notin DOMAIN cm.state.room_bookings[room_key]

check_staff_booking(cm, block, slot, room) ==
    LET slot_key == SlotKey(slot)
        staff_id == block.staff_member.id
    IN IF staff_id \notin DOMAIN cm.state.staff_bookings THEN TRUE
       ELSE slot_key \notin DOMAIN cm.state.staff_bookings[staff_id]

check_room_availability(cm, block, slot, room) ==
    \E pref \in room.availability :
        /\ pref.day = slot.day
        /\ pref.start_time <= slot.start_time
        /\ pref.end_time >= slot.end_time

\* a single-group check that looks at the incoming block only, never at
\* the blocks already placed at the slot
check_single_group_conflict_incoming_only(cm, block, slot, room) ==
    LET slot_key == <<block.academic_list, slot.day, slot.start_time>>
    IN IF slot_key \in DOMAIN cm.state.study_plan_slots
       THEN ~block.is_single_group_course /\ ~block.course_object.is_none
       ELSE TRUE

\* a single-group check that lets no two blocks of a study plan share a slot
check_single_group_conflict_exclusive(cm, block, slot, room) ==
    <<block.academic_list, slot.day, slot.start_time>> \notin DOMAIN cm.state.study_plan_slots

\* a single-group check that keeps the blocks of each academic level apart:
\* only the placed blocks of the incoming block's level count
check_single_group_conflict_per_level(cm, block, slot, room) ==
    LET same_level ==
            {b \in DOMAIN cm.current_assignments :
                /\ cm.current_assignments[b].block.academic_list = block.academic_list
                /\ cm.current_assignments[b].block.academic_level = block.academic_level
                /\ cm.current_assignments[b].time_slot.day = slot.day
                /\ cm.current_assignments[b].time_slot.start_time = slot.start_time}
    IN same_level # {} =>
          /\ ~block.is_single_group_course
          /\ ~block.course_object.is_none
          /\ \A b \in same_level :
                /\ ~cm.current_assignments[b].block.is_single_group_course
                /\ cm.current_assignments[b].block.course_code = block.course_object.course_code
                     => ~(block.total_groups = 1
                          \/ cm.current_assignments[b].block.total_groups = 1)

check_single_group_conflict(cm, block, slot, room) ==
    LET slot_key == <<block.academic_list, slot.day, slot.start_time>>
    IN IF slot_key \in DOMAIN cm.state.study_plan_slots
       THEN LET ids == Range(cm.state.study_plan_slots[slot_key])
                existing_blocks ==
                    {cm.current_assignments[b].block : b \in
                        {b \in DOMAIN cm.current_assignments :
                            cm.current_assignments[b].block.id \in ids}}
            IN /\ ~block.is_single_group_course
               /\ \A existing_block \in existing_blocks :
                    /\ ~existing_block.is_single_group_course
                    \* reading course_object.course_code of None raises: a rejection
                    /\ ~block.course_object.is_none
                    /\ existing_block.course_code = block.course_object.course_code
                         => ~(block.total_groups = 1 \/ existing_block.total_groups = 1)
       ELSE TRUE

check_lab_requirements(cm, block, slot, room) ==
    IF block.required_room_type = "lab"
    THEN IF room.kind # "lab" THEN FALSE
         ELSE IF block.preferred_rooms # << >> THEN room \in Range(block.preferred_rooms)
         ELSE room.used_in_non_specialist_courses
    ELSE IF block.required_room_type = "hall" /\ room.kind # "hall" THEN FALSE
    ELSE TRUE

\* ConstraintManager.can_assign: the hard constraints in their order;
\* an exception raised by a constraint is reported as a rejection
can_assign(cm, block, slot, room) ==
    /\ check_room_booking(cm, block, slot, room)
    /\ check_staff_booking(cm, block, slot, room)
    /\ check_room_availability(cm, block, slot, room)
    /\ check_single_group_conflict(cm, block, slot, room)
    /\ check_lab_requirements(cm, block, slot, room)

\* TRUE iff a hard constraint raises inside can_assign (reported as a
\* rejection): check_single_group_conflict reads block.course_object.course_code
\* for the first placed block of the slot, none of them single-group
can_assign_raises(cm, block, slot, room) ==
    LET slot_key == <<block.academic_list, slot.day, slot.start_time>>
    IN /\ check_room_booking(cm, block, slot, room)
       /\ check_staff_booking(cm, block, slot, room)
       /\ check_room_availability(cm, block, slot, room)
       /\ slot_key \in DOMAIN cm.state.study_plan_slots
       /\ ~block.is_single_group_course
       /\ cm.state.study_plan_slots[slot_key] # << >>
       /\ \A b \in DOMAIN cm.current_assignments :
             cm.current_assignments[b].block.id = Head(cm.state.study_plan_slots[slot_key])
             => ~cm.current_assignments[b].block.is_single_group_course
       /\ Head(cm.state.study_plan_slots[slot_key]) \in DOMAIN cm.current_assignments
       /\ block.course_object.is_none

\* a can_assign whose room lookup leaves an entry behind, as a lookup in a
\* defaultdict would
can_assign_call_touching(cm, block, slot, room) ==
    [ret |-> can_assign(cm, block, slot, room),
     cm |-> IF get_room_key(room) \in DOMAIN cm.state.room_bookings THEN cm
            ELSE [cm EXCEPT !.state.room_bookings =
                                Put(cm.state.room_bookings, get_room_key(room), EmptyDict)]]

\* a call of can_assign: [ret, cm], its result and the constraint manager as
\* the call leaves it.  The constraints only read self.state and
\* self.current_assignments (plain dicts, membership tests and lookups of
\* present keys).
can_assign_call(cm, block, slot, room) ==
    [ret |-> can_assign(cm, block, slot, room), cm |-> cm]

---------------------------------------------------------------------------
(* Resource manager.                                                       *)

\* insert room r after every room of the sorted list with a key <= r's key
RECURSIVE InsertByKey(_, _, _)
InsertByKey(sorted, r, required_capacity) ==
    IF sorted = << >> THEN <<r>>
    ELSE IF Abs(Head(sorted).capacity - required_capacity) <= Abs(r.capacity - required_capacity)
         THEN <<Head(sorted)>> \o InsertByKey(Tail(sorted), r, required_capacity)
         ELSE <<r>> \o sorted

\* sorted(rooms, key=|capacity - required_capacity|): a stable sort
RECURSIVE SortByFit(_, _)
SortByFit(rooms, required_capacity) ==
    IF rooms = << >> THEN << >>
    ELSE InsertByKey(SortByFit(SubSeq(rooms, 1, Len(rooms) - 1), required_capacity),
                     rooms[Len(rooms)], required_capacity)

\* capacity >= required_capacity * 0.8
CapacityGate(room, required_capacity) == room.capacity * 10 >= required_capacity * 8

\* the suitable rooms before sorting, with no capacity gate
suitable_rooms_no_gate(inp, block) ==
    IF block.required_room_type = "lab"
    THEN IF block.preferred_rooms # << >> THEN block.preferred_rooms
         ELSE SeqFilter(inp.labs, {lab \in Range(inp.labs) : lab.used_in_non_specialist_courses})
    ELSE inp.halls

\* suitable rooms sorted by fit with no capacity gate
get_suitable_rooms_no_gate(inp, block) ==
    SortByFit(suitable_rooms_no_gate(inp, block), block.student_count)

\* ResourceManager.get_suitable_rooms
get_suitable_rooms(inp, block) ==
    LET required_capacity == block.student_count
        pool == suitable_rooms_no_gate(inp, block)
        suitable_rooms ==
            SeqFilter(pool, {r \in Range(pool) : CapacityGate(r, required_capacity)})
    IN SortByFit(suitable_rooms, required_capacity)

\* end_time = time(start_time.hour + time_slot_duration, 0): the minutes are dropped
SlotEnd(start_time) == AtHour(Hour(start_time) + time_slot_duration)

SlotOf(key) == TimePreference(key[1], key[2], SlotEnd(key[2]))

\* candidate slots that are not cut down to a lecturer's preferences
available_slot_groups_not_strict(block, room, existing_assignments) ==
    LET base_slots == {SlotKey(slot) : slot \in room.availability}
        used_slots == {SlotKey(existing_assignments[b].time_slot) :
                          b \in {b \in DOMAIN existing_assignments :
                                    existing_assignments[b].room = room}}
    IN <<base_slots \ used_slots, {}>>

\* ResourceManager.get_available_slots, as the slot keys it returns: a pair
\* <<first, rest>>; the list holds the slots of first in some order (the
\* iteration order of a set), then those of rest in some order
available_slot_groups(block, room, existing_assignments) ==
    LET base_slots == {SlotKey(slot) : slot \in room.availability}
        used_slots == {SlotKey(existing_assignments[b].time_slot) :
                          b \in {b \in DOMAIN existing_assignments :
                                    existing_assignments[b].room = room}}
        staff_slots == {SlotKey(slot) : slot \in block.staff_member.timing_preferences}
        available_slot_tuples == base_slots \ used_slots
    IN IF block.staff_member.kind = "ta"
       THEN <<available_slot_tuples \cap staff_slots, available_slot_tuples \ staff_slots>>
       ELSE <<available_slot_tuples \cap staff_slots, {}>>

get_available_slots(block, room, existing_assignments) ==
    LET g == available_slot_groups(block, room, existing_assignments)
    IN {SlotOf(k) : k \in g[1] \cup g[2]}

---------------------------------------------------------------------------
(* Scheduling engine: block expansion.                                     *)

\* an expansion that makes one block per staff entry, whatever its num_of_groups
PerGroup_one_each(entries) == [i \in 1..Len(entries) |-> entries[i].staff]

\* a list of {staff, num_of_groups} entries as one staff member per group
RECURSIVE PerGroup(_)
PerGroup(entries) ==
    IF entries = << >> THEN << >>
    ELSE [g \in 1..Head(entries).num_of_groups |-> Head(entries).staff] \o PerGroup(Tail(entries))

\* f"L_{course_code}_{staff.id}_{group}" / f"P_..."
BlockId(prefix, course, staff, group) == <<prefix, course.course_code, staff.id, group>>

LectureBlocks(course, study_plan) ==
    LET per_group == PerGroup(course.lecturers)
    IN [lecture_group_count \in 1..Len(per_group) |->
          [id |-> BlockId("L", course, per_group[lecture_group_count], lecture_group_count),
           course_code |-> course.course_code,
           course_object |-> [is_none |-> FALSE, course_code |-> course.course_code],
           block_type |-> "lecture",
           staff_member |-> per_group[lecture_group_count],
           student_count |-> study_plan.expected_students \div course.lecture_groups,
           required_room_type |-> "hall",
           group_number |-> lecture_group_count,
           total_groups |-> course.lecture_groups,
           is_single_group_course |-> (course.lecture_groups = 1),
           academic_list |-> study_plan.academic_list,
           academic_level |-> study_plan.academic_level,
           practical_in_lab |-> TRUE,
           preferred_rooms |-> << >>]]

LabBlocks(course, study_plan) ==
    IF course.lab_groups > 0 /\ course.teaching_assistants # << >>
    THEN LET per_group == PerGroup(course.teaching_assistants)
         IN [lab_group_count \in 1..Len(per_group) |->
               [id |-> BlockId("P", course, per_group[lab_group_count], lab_group_count),
                course_code |-> course.course_code,
                course_object |-> [is_none |-> FALSE, course_code |-> course.course_code],
                block_type |-> "lab",
                staff_member |-> per_group[lab_group_count],
                student_count |-> study_plan.expected_students \div course.lab_groups,
                required_room_type |-> IF course.practical_in_lab THEN "lab" ELSE "hall",
                group_number |-> lab_group_count,
                total_groups |-> course.lab_groups,
                is_single_group_course |-> (course.lab_groups = 1),
                academic_list |-> study_plan.academic_list,
                academic_level |-> study_plan.academic_level,
                practical_in_lab |-> course.practical_in_lab,
                preferred_rooms |-> course.preferred_labs]]
    ELSE << >>

\* SchedulingEngine._convert_course_assignments_to_blocks, courses i..n
RECURSIVE BlocksFrom(_, _)
BlocksFrom(inp, i) ==
    IF i > Len(inp.course_assignments) THEN << >>
    ELSE LectureBlocks(inp.course_assignments[i], inp.study_plan_mapping[i])
         \o LabBlocks(inp.course_assignments[i], inp.study_plan_mapping[i])
         \o BlocksFrom(inp, i + 1)

convert_course_assignments_to_blocks(inp) == BlocksFrom(inp, 1)

---------------------------------------------------------------------------
(* Constraint manager: soft constraints, in hundredths of a point.         *)

PrefersSlot(staff, slot) ==
    \E pref \in staff.timing_preferences :
        pref.day = slot.day /\ pref.start_time = slot.start_time

\* scores are tenths (1.0 = 10), weights are tenths (5.0 = 50)
evaluate_lecturer_preferences(cm, block, slot, room) ==
    IF block.staff_member.kind # "lecturer" THEN 0
    ELSE IF PrefersSlot(block.staff_member, slot) THEN 10 ELSE 0

evaluate_ta_preferences(cm, block, slot, room) ==
    IF block.staff_member.kind # "ta" THEN 0
    ELSE IF PrefersSlot(block.staff_member, slot) THEN 10 ELSE 0

RECURSIVE InsertTime(_, _)
InsertTime(sorted, t) ==
    IF sorted = << >> THEN <<t>>
    ELSE IF Head(sorted) <= t THEN <<Head(sorted)>> \o InsertTime(Tail(sorted), t)
    ELSE <<t>> \o sorted

RECURSIVE SortTimes(_)
SortTimes(times) ==
    IF times = << >> THEN << >>
    ELSE InsertTime(SortTimes(Tail(times)), Head(times))

SetMax(S) == CHOOSE x \in S : \A y \in S : y <= x

SetMin(S) == CHOOSE x \in S : \A y \in S : x <= y

\* a gap score over the recorded start times alone, the candidate slot left
\* out
evaluate_gaps_existing_only(cm, block, slot, room) ==
    LET level_key == <<block.academic_list, block.academic_level>>
    IN IF level_key \notin DOMAIN cm.state.level_slots THEN 10
       ELSE IF slot.day \notin DOMAIN cm.state.level_slots[level_key] THEN 10
       ELSE LET day_slots == SortTimes(cm.state.level_slots[level_key][slot.day])
                max_gap == SetMax({0} \cup {Hour(day_slots[i + 1]) - Hour(day_slots[i]) :
                                              i \in 1..(Len(day_slots) - 1)})
            IN IF max_gap <= 2 THEN 10 ELSE IF max_gap <= 4 THEN 5 ELSE 0

\* ConstraintManager.evaluate_gaps, in tenths
evaluate_gaps(cm, block, slot, room) ==
    LET level_key == <<block.academic_list, block.academic_level>>
    IN IF level_key \notin DOMAIN cm.state.level_slots THEN 10
       ELSE IF slot.day \notin DOMAIN cm.state.level_slots[level_key] THEN 10
       ELSE LET day_slots == SortTimes(cm.state.level_slots[level_key][slot.day])
                gaps == {Hour(day_slots[i + 1]) - Hour(day_slots[i]) :
                            i \in 1..(Len(day_slots) - 1)}
                hours == {Hour(day_slots[i]) : i \in DOMAIN day_slots}
                before_gap == Abs(Hour(slot.start_time) - SetMin(hours))
                after_gap == Abs(Hour(slot.start_time) - SetMax(hours))
                max_gap == IF day_slots = << >> THEN 0
                           ELSE SetMax(gaps \cup {0, before_gap, after_gap})
            IN IF max_gap <= 2 THEN 10 ELSE IF max_gap <= 4 THEN 5 ELSE 0

\* utilization = student_count / capacity against 0.5, 0.9, 0.3, 1.0
evaluate_room_capacity(cm, block, slot, room) ==
    LET n == block.student_count * 10
        c == room.capacity
    IN IF 5 * c <= n /\ n <= 9 * c THEN 10
       ELSE IF 3 * c <= n /\ n < 5 * c THEN 7
       ELSE IF 9 * c < n /\ n <= 10 * c THEN 7
       ELSE IF n < 3 * c THEN 3
       ELSE 0

LecturerWeight == 50
TaWeight == 30
GapsWeight == 20
CapacityWeight == 15

\* ConstraintManager.evaluate_soft_constraints, in hundredths
evaluate_soft_constraints(cm, block, slot, room) ==
      evaluate_lecturer_preferences(cm, block, slot, room) * LecturerWeight
    + evaluate_ta_preferences(cm, block, slot, room) * TaWeight
    + evaluate_gaps(cm, block, slot, room) * GapsWeight
    + evaluate_room_capacity(cm, block, slot, room) * CapacityWeight

---------------------------------------------------------------------------
(* Scheduling engine: priority order, placement of one block, evaluation.  *)

\* SchedulingEngine._calculate_block_priority, in hundredths
calculate_block_priority(block) ==
      (IF block.preferred_rooms # << >> THEN 1000 ELSE 0)
    + (IF block.is_single_group_course THEN 2000 ELSE 0)
    + (IF block.staff_member.kind = "lecturer" THEN 1500 ELSE 0)
    + (IF block.required_room_type = "lab" THEN 800 ELSE 0)
    + block.student_count

RECURSIVE SumLens(_, _, _)
SumLens(rooms, block, assignments) ==
    IF rooms = << >> THEN 0
    ELSE Cardinality(get_available_slots(block, Head(rooms), assignments))
         + SumLens(Tail(rooms), block, assignments)

\* get_block_score of _sort_blocks_by_priority
get_block_score(inp, cm, block) ==
    LET possible_rooms == get_suitable_rooms(inp, block)
    IN <<IF block.is_single_group_course THEN 1 ELSE 0,
         -Len(possible_rooms),
         -SumLens(possible_rooms, block, cm.current_assignments),
         calculate_block_priority(block)>>

\* tuple comparison a < b
RECURSIVE TupleLess(_, _)
TupleLess(a, b) ==
    IF a = << >> THEN FALSE
    ELSE IF Head(a) # Head(b) THEN Head(a) < Head(b)
    ELSE TupleLess(Tail(a), Tail(b))

RECURSIVE InsertBlock(_, _, _, _)
InsertBlock(sorted, b, inp, cm) ==
    IF sorted = << >> THEN <<b>>
    ELSE IF TupleLess(get_block_score(inp, cm, Head(sorted)), get_block_score(inp, cm, b))
         THEN <<b>> \o sorted
         ELSE <<Head(sorted)>> \o InsertBlock(Tail(sorted), b, inp, cm)

\* an order of processing that is the order of expansion
sort_blocks_in_expansion_order(blocks, inp, cm) == blocks

\* SchedulingEngine._sort_blocks_by_priority: sorted(..., reverse=True), stable
RECURSIVE sort_blocks_by_priority(_, _, _)
sort_blocks_by_priority(blocks, inp, cm) ==
    IF blocks = << >> THEN << >>
    ELSE InsertBlock(sort_blocks_by_priority(SubSeq(blocks, 1, Len(blocks) - 1), inp, cm),
                     blocks[Len(blocks)], inp, cm)

\* the first room of the list with a free candidate slot, with no can_assign
RECURSIVE FirstFree(_, _, _)
FirstFree(rooms, c, block) ==
    IF rooms = << >> THEN {}
    ELSE LET room == Head(rooms)
             g == available_slot_groups(block, room, c.current_assignments)
         IN IF g[1] # {} THEN {Assignment(block, SlotOf(k), room) : k \in g[1]}
            ELSE IF g[2] # {} THEN {Assignment(block, SlotOf(k), room) : k \in g[2]}
            ELSE FirstFree(Tail(rooms), c, block)

\* the loops of _schedule_single_block over the rooms in order and over the
\* slots of a room in the order get_available_slots lists them (within a
\* group, the iteration order of a set): the assignments it can return
RECURSIVE FirstAssignable(_, _, _)
FirstAssignable(rooms, c, block) ==
    IF rooms = << >> THEN {}
    ELSE LET room == Head(rooms)
             g == available_slot_groups(block, room, c.current_assignments)
             ok1 == {k \in g[1] : can_assign(c, block, SlotOf(k), room)}
             ok2 == {k \in g[2] : can_assign(c, block, SlotOf(k), room)}
         IN IF ok1 # {} THEN {Assignment(block, SlotOf(k), room) : k \in ok1}
            ELSE IF ok2 # {} THEN {Assignment(block, SlotOf(k), room) : k \in ok2}
            ELSE FirstAssignable(Tail(rooms), c, block)

\* a placement that takes the first free slot of the best-fitting room of
\* either kind and never asks can_assign
schedule_single_block_first_free(inp, c, block) ==
    FirstFree(SortByFit(inp.halls \o inp.labs, block.student_count), c, block)

\* SchedulingEngine._schedule_single_block: the set of assignments it can
\* return, {} when it returns None
schedule_single_block(inp, c, block) ==
    FirstAssignable(get_suitable_rooms(inp, block), c, block)

RECURSIVE SumScores(_, _)
SumScores(cm, ids) ==
    IF ids = {} THEN 0
    ELSE LET b == CHOOSE x \in ids : TRUE
             a == cm.current_assignments[b]
         IN evaluate_soft_constraints(cm, a.block, a.time_slot, a.room)
            + SumScores(cm, ids \ {b})

\* SchedulingEngine._evaluate_schedule: the mean as a fraction of hundredths
evaluate_schedule(cm) ==
    IF DOMAIN cm.current_assignments = {} THEN [num |-> 0, den |-> 1]
    ELSE [num |-> SumScores(cm, DOMAIN cm.current_assignments),
          den |-> Cardinality(DOMAIN cm.current_assignments)]

ScoreGreater(a, b) == a.num * b.den > b.num * a.den

\* attempt_score >= 0.95
ScorePerfect(a) == a.num >= 95 * a.den

---------------------------------------------------------------------------
(* Bounds and the inputs drawn from them.                                  *)

\* lecture_groups and lab_groups of a course range up to MaxGroups
MaxGroups == 2

\* max_attempts of schedule_blocks (100 by default)
MaxAttempts == 2

\* live assignments kept by the constraint manager driven directly
MaxLive == 2

Sun0900 == TimePreference(SUNDAY, AtHour(9), AtHour(11))
Sun1100 == TimePreference(SUNDAY, AtHour(11), AtHour(13))
Mon1300 == TimePreference(MONDAY, AtHour(13), AtHour(15))
\* a window shorter than a slot, and a window that starts on the half hour
Sun0900Short == TimePreference(SUNDAY, AtHour(9), AtHour(10))
Sun0930 == TimePreference(SUNDAY, AtHour(9) + 30, AtHour(11))

FullWeek == {Sun0900, Sun1100, Mon1300}

Hall1Availabilities == {FullWeek, {Sun0900Short, Sun0930, Mon1300}}
LecturerXPreferences == {{Sun0900}, {Sun0930, Sun1100}, {Sun0930}}
LecturerYPreferences == {{Sun0900}, {Sun1100, Mon1300}}
TaPreferences == {{Sun1100}}

Lab1 == Lab(1, 25, FullWeek, TRUE)
\* a specialist-only lab
Lab2 == Lab(2, 36, {Sun1100, Mon1300}, FALSE)

\* the study plan of level 1 expects 40 students, that of level 2 expects 44
StudyPlan(level) ==
    [academic_list |-> "CS", academic_level |-> level,
     expected_students |-> IF level = 1 THEN 40 ELSE 44]

\* the ways n lecture groups are given to lecturers x and y
LecturerSplits(n, x, y) ==
    {<<[staff |-> x, num_of_groups |-> n]>>}
    \cup (IF n >= 2
          THEN {<<[staff |-> x, num_of_groups |-> 1], [staff |-> y, num_of_groups |-> n - 1]>>}
          ELSE {})

\* <<lecture_groups, lecturers>>
LectureOptions(x, y) ==
    UNION {{<<n, l>> : l \in LecturerSplits(n, x, y)} : n \in 1..MaxGroups}

CourseA(lg, lecturers, labg, ta, pil, pref) ==
    [course_code |-> "A", lecture_groups |-> lg, lecturers |-> lecturers,
     lab_groups |-> labg,
     teaching_assistants |-> IF labg > 0 THEN <<[staff |-> ta, num_of_groups |-> labg]>> ELSE << >>,
     practical_in_lab |-> pil, preferred_labs |-> pref]

CourseB(lg, y) ==
    [course_code |-> "B", lecture_groups |-> lg,
     lecturers |-> <<[staff |-> y, num_of_groups |-> lg]>>,
     lab_groups |-> 0, teaching_assistants |-> << >>,
     practical_in_lab |-> TRUE, preferred_labs |-> << >>]

\* course A with one lecture group and two lab groups, one per teaching
\* assistant
CourseATwoTas(x, ta, tb, pil, pref) ==
    [CourseA(1, <<[staff |-> x, num_of_groups |-> 1]>>, 2, ta, pil, pref)
        EXCEPT !.teaching_assistants = <<[staff |-> ta, num_of_groups |-> 1],
                                         [staff |-> tb, num_of_groups |-> 1]>>]

\* (practical_in_lab, preferred_labs) of course A
LabOptions == {<<TRUE, << >> >>, <<TRUE, <<Lab2>> >>, <<FALSE, <<Lab2>> >>}

CoursesA(x, y, ta) ==
    {CourseA(lo[1], lo[2], 0, ta, TRUE, << >>) : lo \in LectureOptions(x, y)}
    \cup
    {CourseA(p[1][1], p[1][2], p[2], ta, p[3][1], p[3][2]) :
        p \in LectureOptions(x, y) \X (1..MaxGroups) \X LabOptions}

\* course A as it is listed beside a course B: without labs, or with
\* MaxGroups lab groups in a general lab
CoursesABesideB(x, y, ta) ==
    {CourseA(lo[1], lo[2], 0, ta, TRUE, << >>) : lo \in LectureOptions(x, y)}
    \cup
    {CourseA(lo[1], lo[2], MaxGroups, ta, TRUE, << >>) : lo \in LectureOptions(x, y)}

\* the course lists: none; course A alone (its lab groups with one teaching
\* assistant, or two lab groups with one each), or with a course B of the
\* same list at level 1 (A's level) or 2; or course A (lectures only) given
\* for the study plans of level 1 and of level 2
CourseLists(x, y, ta) ==
    {[course_assignments |-> << >>, study_plan_mapping |-> << >>]}
    \cup
    {[course_assignments |-> <<CourseA(lo[1], lo[2], 0, ta, TRUE, << >>),
                               CourseA(lo[1], lo[2], 0, ta, TRUE, << >>)>>,
      study_plan_mapping |-> <<StudyPlan(1), StudyPlan(2)>>] :
        lo \in LectureOptions(x, y)}
    \cup
    {[course_assignments |-> <<a>>, study_plan_mapping |-> <<StudyPlan(1)>>] :
        a \in CoursesA(x, y, ta)}
    \cup
    {[course_assignments |->
          <<CourseATwoTas(x, ta, TeachingAssistant(4, ta.timing_preferences), lo[1], lo[2])>>,
      study_plan_mapping |-> <<StudyPlan(1)>>] : lo \in LabOptions}
    \cup
    {[course_assignments |-> <<p[1], CourseB(p[2], y)>>,
      study_plan_mapping |-> <<StudyPlan(1), StudyPlan(p[3])>>] :
        p \in CoursesABesideB(x, y, ta) \X (1..MaxGroups) \X {1, 2}}

Inputs ==
    UNION {
      {[halls |-> <<Hall(1, 40, p[1]), Hall(2, 100, FullWeek)>>,
        labs |-> <<Lab1, Lab2>>,
        course_assignments |-> c.course_assignments,
        study_plan_mapping |-> c.study_plan_mapping] :
          c \in CourseLists(Lecturer(1, p[2]), Lecturer(2, p[3]), TeachingAssistant(3, p[4]))} :
      p \in Hall1Availabilities \X LecturerXPreferences
             \X LecturerYPreferences \X TaPreferences}

---------------------------------------------------------------------------
(* The state machine.                                                      *)

cm == [state |-> state, current_assignments |-> current_assignments]

blocks == convert_course_assignments_to_blocks(input)

NoCall == [op |-> "none", ret |-> FALSE, room_booked |-> FALSE,
           staff_booked |-> FALSE, present |-> FALSE, none |-> FALSE]

\* what a make_assignment call met in the state it was called in
CallOf(c, block_id, assignment, ret) ==
    [op |-> "make_assignment", ret |-> ret,
     room_booked |-> \E b \in DOMAIN c.current_assignments :
                        /\ SlotKey(c.current_assignments[b].time_slot) = SlotKey(assignment.time_slot)
                        /\ get_room_key(c.current_assignments[b].room) = get_room_key(assignment.room),
     staff_booked |-> \E b \in DOMAIN c.current_assignments :
                        /\ SlotKey(c.current_assignments[b].time_slot) = SlotKey(assignment.time_slot)
                        /\ c.current_assignments[b].block.staff_member.id = assignment.block.staff_member.id,
     present |-> block_id \in DOMAIN c.current_assignments,
     none |-> assignment.block.course_object.is_none]

EngineInit ==
    /\ state = create_empty
    /\ current_assignments = EmptyDict
    /\ last = NoCall
    /\ pc = "loop"
    /\ attempt = 0
    /\ sorted_blocks = << >>
    /\ idx = 0
    /\ scheduled_count = 0
    /\ best_assignments = EmptyDict
    /\ best_score = [num |-> 0, den |-> 1]
    /\ best_count = 0
    /\ executed = << >>
    /\ runs = << >>

\* ScheduleGenerationEngine.__init__
PipeInit ==
    /\ step = "fetch_study_plans"
    /\ result = "none"
    /\ steps_run = << >>
    /\ validation_errors = 0
    /\ run_assignments = EmptyDict
    /\ posts = << >>
    /\ posted = "none"

Init == input \in Inputs /\ EngineInit /\ PipeInit

\* an attempt that starts on the state the previous attempt left
StartAttempt_keeps_state ==
    /\ pc = "loop"
    /\ attempt < MaxAttempts
    /\ scheduled_count' = 0
    /\ sorted_blocks' = sort_blocks_by_priority(blocks, input, cm)
    /\ idx' = 1
    /\ pc' = "place"
    /\ last' = [NoCall EXCEPT !.op = "reset"]
    /\ UNCHANGED <<input, state, current_assignments, attempt,
                   best_assignments, best_score, best_count, executed, runs,
                   pipevars>>

\* for attempt in range(max_attempts): initialize_fresh_state, sort the blocks
StartAttempt ==
    /\ pc = "loop"
    /\ attempt < MaxAttempts
    /\ state' = initialize_fresh_state.state
    /\ current_assignments' = initialize_fresh_state.current_assignments
    /\ scheduled_count' = 0
    /\ sorted_blocks' = sort_blocks_by_priority(blocks, input, initialize_fresh_state)
    /\ idx' = 1
    /\ pc' = "place"
    /\ last' = [NoCall EXCEPT !.op = "reset"]
    /\ UNCHANGED <<input, attempt, best_assignments, best_score, best_count, executed, runs,
                   pipevars>>

\* one pass of the loop over sorted_blocks whose _schedule_single_block
\* returns an assignment: make_assignment commits it
PlaceBlock ==
    /\ pc = "place"
    /\ idx <= Len(sorted_blocks)
    /\ LET block == sorted_blocks[idx]
       IN \E assignment \in schedule_single_block(input, cm, block) :
            LET r == make_assignment(cm, block.id, assignment)
            IN /\ state' = r.cm.state
               /\ current_assignments' = r.cm.current_assignments
               /\ scheduled_count' = IF r.ret THEN scheduled_count + 1 ELSE scheduled_count
               /\ last' = CallOf(cm, block.id, assignment, r.ret)
    /\ idx' = idx + 1
    /\ UNCHANGED <<input, pc, attempt, sorted_blocks, best_assignments, best_score, best_count, executed, runs,
                   pipevars>>

\* a pass that gives up the attempt at the first block without a candidate
SkipBlock_aborts ==
    /\ pc = "place"
    /\ idx <= Len(sorted_blocks)
    /\ schedule_single_block(input, cm, sorted_blocks[idx]) = {}
    /\ idx' = Len(sorted_blocks) + 1
    /\ last' = NoCall
    /\ UNCHANGED <<input, state, current_assignments, pc, attempt, sorted_blocks,
                   scheduled_count, best_assignments, best_score, best_count, executed, runs,
                   pipevars>>

\* one pass of the loop whose _schedule_single_block returns None
SkipBlock ==
    /\ pc = "place"
    /\ idx <= Len(sorted_blocks)
    /\ schedule_single_block(input, cm, sorted_blocks[idx]) = {}
    /\ idx' = idx + 1
    /\ last' = NoCall
    /\ UNCHANGED <<input, state, current_assignments, pc, attempt, sorted_blocks,
                   scheduled_count, best_assignments, best_score, best_count, executed, runs,
                   pipevars>>

\* an end of attempt that stores every attempt as the best
EndAttempt_takes_last ==
    /\ pc = "place"
    /\ idx > Len(sorted_blocks)
    /\ LET attempt_score == evaluate_schedule(cm)
           perfect == scheduled_count = Len(blocks) /\ ScorePerfect(attempt_score)
       IN /\ best_assignments' = current_assignments
          /\ best_score' = attempt_score
          /\ best_count' = scheduled_count
          /\ attempt' = attempt + 1
          /\ executed' = Append(executed, [scheduled_count |-> scheduled_count,
                                            attempt_score |-> attempt_score,
                                            assignments |-> current_assignments])
          /\ pc' = IF perfect \/ attempt + 1 >= MaxAttempts THEN "after_loop" ELSE "loop"
    /\ UNCHANGED <<input, state, current_assignments, last, sorted_blocks, idx, scheduled_count, runs,
                   pipevars>>

\* an end of attempt with no perfect-schedule check
EndAttempt_no_early_stop ==
    /\ pc = "place"
    /\ idx > Len(sorted_blocks)
    /\ LET attempt_score == evaluate_schedule(cm)
           better == \/ scheduled_count > best_count
                     \/ scheduled_count = best_count /\ ScoreGreater(attempt_score, best_score)
       IN /\ best_assignments' = IF better THEN current_assignments ELSE best_assignments
          /\ best_score' = IF better THEN attempt_score ELSE best_score
          /\ best_count' = IF better THEN scheduled_count ELSE best_count
          /\ attempt' = attempt + 1
          /\ executed' = Append(executed, [scheduled_count |-> scheduled_count,
                                            attempt_score |-> attempt_score,
                                            assignments |-> current_assignments])
          /\ pc' = IF attempt + 1 >= MaxAttempts THEN "after_loop" ELSE "loop"
    /\ UNCHANGED <<input, state, current_assignments, last, sorted_blocks, idx, scheduled_count, runs,
                   pipevars>>

\* an end of attempt that goes round again until an attempt is perfect,
\* without counting the attempts
EndAttempt_until_perfect ==
    /\ pc = "place"
    /\ idx > Len(sorted_blocks)
    /\ LET attempt_score == evaluate_schedule(cm)
           better == \/ scheduled_count > best_count
                     \/ scheduled_count = best_count /\ ScoreGreater(attempt_score, best_score)
           perfect == scheduled_count = Len(blocks) /\ ScorePerfect(attempt_score)
       IN /\ best_assignments' = IF better THEN current_assignments ELSE best_assignments
          /\ best_score' = IF better THEN attempt_score ELSE best_score
          /\ best_count' = IF better THEN scheduled_count ELSE best_count
          /\ pc' = IF perfect THEN "after_loop" ELSE "loop"
    /\ UNCHANGED <<input, state, current_assignments, last, sorted_blocks, idx, scheduled_count, runs,
                   attempt, executed, pipevars>>

\* the end of an attempt: evaluate, update the best, stop or go on
EndAttempt ==
    /\ pc = "place"
    /\ idx > Len(sorted_blocks)
    /\ LET attempt_score == evaluate_schedule(cm)
           better == \/ scheduled_count > best_count
                     \/ scheduled_count = best_count /\ ScoreGreater(attempt_score, best_score)
           perfect == scheduled_count = Len(blocks) /\ ScorePerfect(attempt_score)
       IN /\ best_assignments' = IF better THEN current_assignments ELSE best_assignments
          /\ best_score' = IF better THEN attempt_score ELSE best_score
          /\ best_count' = IF better THEN scheduled_count ELSE best_count
          /\ attempt' = attempt + 1
          /\ executed' = Append(executed, [scheduled_count |-> scheduled_count,
                                            attempt_score |-> attempt_score,
                                            assignments |-> current_assignments])
          /\ pc' = IF perfect \/ attempt + 1 >= MaxAttempts THEN "after_loop" ELSE "loop"
    /\ UNCHANGED <<input, state, current_assignments, last, sorted_blocks, idx, scheduled_count, runs,
                   pipevars>>

\* an end of run that returns best_assignments whatever it holds
Finish_always_returns ==
    /\ pc = "after_loop"
    /\ pc' = "returned"
    /\ UNCHANGED <<input, state, current_assignments, last, attempt, sorted_blocks, idx,
                   scheduled_count, best_assignments, best_score, best_count, executed, runs,
                   pipevars>>

\* after the loop: raise ValueError when best_assignments is empty, else
\* verify and return best_assignments
Finish ==
    /\ pc = "after_loop"
    /\ pc' = IF best_assignments = EmptyDict THEN "raised" ELSE "returned"
    /\ UNCHANGED <<input, state, current_assignments, last, attempt, sorted_blocks, idx,
                   scheduled_count, best_assignments, best_score, best_count, executed, runs,
                   pipevars>>

Next == StartAttempt \/ PlaceBlock \/ SkipBlock \/ EndAttempt \/ Finish

Spec == Init /\ [][Next]_vars

---------------------------------------------------------------------------
(* The constraint manager driven directly: any sequence of reset() and     *)
(* make_assignment() calls, with no can_assign before them.                *)

\* a hall and a lab that shares its id with the hall; one course of two
\* lecture groups (one lecturer) and two lab groups (one teaching assistant)
CMInputs ==
    {[halls |-> <<Hall(1, 40, {Sun0900, Sun1100})>>,
      labs |-> <<Lab(1, 25, {Sun0900, Sun1100}, TRUE)>>,
      course_assignments |->
          <<CourseA(2, <<[staff |-> Lecturer(1, {Sun0900}), num_of_groups |-> 2]>>,
                    2, TeachingAssistant(3, {Sun1100}), TRUE, << >>)>>,
      study_plan_mapping |-> <<StudyPlan(1)>>]}

InitCM == input \in CMInputs /\ EngineInit /\ PipeInit

\* the slots a caller can name: those of the rooms and of the staff
CMSlots ==
    {SlotOf(SlotKey(tp)) :
        tp \in UNION ({r.availability : r \in Range(input.halls) \cup Range(input.labs)}
                      \cup {b.staff_member.timing_preferences : b \in Range(blocks)})}

\* the blocks a caller can pass: the run's blocks, well formed or with a
\* course_object of None
CMBlocks ==
    Range(blocks)
    \cup {[b EXCEPT !.course_object = [is_none |-> TRUE, course_code |-> ""]] : b \in Range(blocks)}

\* reset(): initialize_fresh_state
CMReset ==
    /\ state' = initialize_fresh_state.state
    /\ current_assignments' = initialize_fresh_state.current_assignments
    /\ last' = [NoCall EXCEPT !.op = "reset"]
    /\ UNCHANGED <<input, pc, attempt, sorted_blocks, idx, scheduled_count,
                   best_assignments, best_score, best_count, executed, runs,
                   pipevars>>

\* make_assignment(block.id, Assignment(block, slot, room))
CMMakeAssignment ==
    /\ \E block \in CMBlocks, slot \in CMSlots,
          room \in Range(input.halls) \cup Range(input.labs) :
          LET assignment == Assignment(block, slot, room)
              r == make_assignment(cm, block.id, assignment)
          IN /\ Cardinality(DOMAIN r.cm.current_assignments) <= MaxLive
             /\ state' = r.cm.state
             /\ current_assignments' = r.cm.current_assignments
             /\ last' = CallOf(cm, block.id, assignment, r.ret)
    /\ UNCHANGED <<input, pc, attempt, sorted_blocks, idx, scheduled_count,
                   best_assignments, best_score, best_count, executed, runs,
                   pipevars>>

\* what a can_assign call met, and whether a constraint raised
CanAssignCallOf(c, block, slot, room, ret) ==
    [op |-> "can_assign", ret |-> ret,
     room_booked |-> ~check_room_booking(c, block, slot, room),
     staff_booked |-> ~check_staff_booking(c, block, slot, room),
     present |-> block.id \in DOMAIN c.current_assignments,
     none |-> block.course_object.is_none,
     raised |-> can_assign_raises(c, block, slot, room)]

\* can_assign(block, slot, room)
CMCanAssign ==
    /\ \E block \in CMBlocks, slot \in CMSlots,
          room \in Range(input.halls) \cup Range(input.labs) :
          LET r == can_assign_call(cm, block, slot, room)
          IN /\ state' = r.cm.state
             /\ current_assignments' = r.cm.current_assignments
             /\ last' = CanAssignCallOf(cm, block, slot, room, r.ret)
    /\ UNCHANGED <<input, pc, attempt, sorted_blocks, idx, scheduled_count,
                   best_assignments, best_score, best_count, executed, runs,
                   pipevars>>

NextCM == CMReset \/ CMMakeAssignment \/ CMCanAssign

SpecCM == InitCM /\ [][NextCM]_vars

---------------------------------------------------------------------------
(* Properties of the constraint manager.                                   *)

Live == DOMAIN current_assignments

AssignedSlot(b) == SlotKey(current_assignments[b].time_slot)

AssignedRoom(b) == <<current_assignments[b].room.kind, current_assignments[b].room.id>>

AssignedStaff(b) == current_assignments[b].block.staff_member.id

\* C1 (P1): for every (room_kind, room_id, day, start) at most one live
\* assignment uses that room at that slot, and a make_assignment call for a
\* room that a live assignment already uses at that slot returns failure.
C1_RoomBookedOnce ==
    /\ \A b1, b2 \in Live :
          (AssignedRoom(b1) = AssignedRoom(b2) /\ AssignedSlot(b1) = AssignedSlot(b2)) => b1 = b2
    /\ (last.op = "make_assignment" /\ last.room_booked) => ~last.ret

\* a call that named a booked room (and nothing else wrong) was refused
C1_Witness ==
    /\ last.op = "make_assignment"
    /\ last.room_booked /\ ~last.staff_booked /\ ~last.present /\ ~last.none
    /\ ~last.ret
    /\ Live # {}

\* C2 (P2): for every (staff_id, day, start) at most one live assignment has
\* that staff member at that slot, and a make_assignment call for a staff
\* member already booked at that slot returns failure.
C2_StaffBookedOnce ==
    /\ \A b1, b2 \in Live :
          (AssignedStaff(b1) = AssignedStaff(b2) /\ AssignedSlot(b1) = AssignedSlot(b2)) => b1 = b2
    /\ (last.op = "make_assignment" /\ last.staff_booked) => ~last.ret

C2_Witness ==
    /\ last.op = "make_assignment"
    /\ last.staff_booked /\ ~last.room_booked /\ ~last.present /\ ~last.none
    /\ ~last.ret
    /\ Live # {}

\* the live assignments of an academic list at a slot
AtPlanSlot(key) ==
    {b \in Live : /\ current_assignments[b].block.academic_list = key[1]
                  /\ AssignedSlot(b) = <<key[2], key[3]>>}

\* the live assignments of a cohort on a day
OnLevelDay(level_key, day) ==
    {b \in Live : /\ current_assignments[b].block.academic_list = level_key[1]
                  /\ current_assignments[b].block.academic_level = level_key[2]
                  /\ current_assignments[b].time_slot.day = day}

\* C3 (I7): after every completed reset() or make_assignment() the five
\* indices agree with the assignments map: room_bookings and staff_bookings
\* hold block b at a key exactly when assignments[b] uses that room / staff
\* member at that slot; study_plan_slots lists exactly the ids assigned to the
\* academic list at the slot; course_slots counts the course's assignments at
\* the slot; level_slots holds exactly the start times of the cohort's
\* assignments of the day.
C3_IndicesAgree ==
    /\ \A b \in Live :
          /\ AssignedRoom(b) \in DOMAIN state.room_bookings
          /\ AssignedSlot(b) \in DOMAIN state.room_bookings[AssignedRoom(b)]
          /\ state.room_bookings[AssignedRoom(b)][AssignedSlot(b)] = b
          /\ AssignedStaff(b) \in DOMAIN state.staff_bookings
          /\ AssignedSlot(b) \in DOMAIN state.staff_bookings[AssignedStaff(b)]
          /\ state.staff_bookings[AssignedStaff(b)][AssignedSlot(b)] = b
          /\ <<current_assignments[b].block.academic_list, AssignedSlot(b)[1], AssignedSlot(b)[2]>>
                \in DOMAIN state.study_plan_slots
          /\ current_assignments[b].block.course_code \in DOMAIN state.course_slots
          /\ AssignedSlot(b) \in DOMAIN state.course_slots[current_assignments[b].block.course_code]
          /\ <<current_assignments[b].block.academic_list, current_assignments[b].block.academic_level>>
                \in DOMAIN state.level_slots
          /\ AssignedSlot(b)[1] \in
                DOMAIN state.level_slots[<<current_assignments[b].block.academic_list,
                                           current_assignments[b].block.academic_level>>]
    /\ \A rk \in DOMAIN state.room_bookings : \A sk \in DOMAIN state.room_bookings[rk] :
          LET b == state.room_bookings[rk][sk]
          IN b \in Live /\ AssignedRoom(b) = rk /\ AssignedSlot(b) = sk
    /\ \A id \in DOMAIN state.staff_bookings : \A sk \in DOMAIN state.staff_bookings[id] :
          LET b == state.staff_bookings[id][sk]
          IN b \in Live /\ AssignedStaff(b) = id /\ AssignedSlot(b) = sk
    /\ \A key \in DOMAIN state.study_plan_slots :
          /\ Range(state.study_plan_slots[key]) = AtPlanSlot(key)
          /\ Len(state.study_plan_slots[key]) = Cardinality(AtPlanSlot(key))
    /\ \A code \in DOMAIN state.course_slots : \A sk \in DOMAIN state.course_slots[code] :
          state.course_slots[code][sk] =
              Cardinality({b \in Live : /\ current_assignments[b].block.course_code = code
                                        /\ AssignedSlot(b) = sk})
    /\ \A lk \in DOMAIN state.level_slots : \A day \in DOMAIN state.level_slots[lk] :
          /\ Range(state.level_slots[lk][day]) =
                {current_assignments[b].time_slot.start_time : b \in OnLevelDay(lk, day)}
          /\ Len(state.level_slots[lk][day]) = Cardinality(OnLevelDay(lk, day))

\* two assignments of one academic list share a slot, after a refused call
C3_Witness ==
    /\ last.op = "make_assignment" /\ ~last.ret
    /\ \E key \in DOMAIN state.study_plan_slots : Len(state.study_plan_slots[key]) = 2

\* C4 (P8): a make_assignment that fails, at the conflict re-verification or
\* by an exception raised after the assignments map and some indices were
\* already updated, returns failure and leaves the five indices and the
\* assignments map as they were before the call.
C4_FailureRestores ==
    [][(/\ last'.op = "make_assignment"
        /\ (last'.room_booked \/ last'.staff_booked \/ last'.none \/ ~last'.ret))
       => (/\ ~last'.ret
           /\ state' = state
           /\ current_assignments' = current_assignments)]_vars

\* a call failed on the block's course_object after the assignment, the room
\* booking and the staff booking had been stored
C4_Witness ==
    /\ last.op = "make_assignment"
    /\ last.none /\ ~last.room_booked /\ ~last.staff_booked /\ ~last.present
    /\ ~last.ret
    /\ Live # {}

---------------------------------------------------------------------------
(* Properties of the schedules the placement loop produces.                *)

BlockOf(b) == current_assignments[b].block

SameCohort(x, y) ==
    x.academic_list = y.academic_list /\ x.academic_level = y.academic_level

\* the loop over sorted_blocks of the current attempt is over
AttemptDone == idx > Len(sorted_blocks)

\* C5 (P6): for every (academic_list, level, day, start): if a block assigned
\* there is a single-group block it is the only block assigned there; otherwise
\* all blocks assigned there have the same course_code and the same block
\* kind, and pairwise different group_number.
C5_CohortSlotRule ==
    \A b1, b2 \in Live :
        (/\ b1 # b2
         /\ SameCohort(BlockOf(b1), BlockOf(b2))
         /\ AssignedSlot(b1) = AssignedSlot(b2))
        => /\ ~BlockOf(b1).is_single_group_course
           /\ ~BlockOf(b2).is_single_group_course
           /\ BlockOf(b1).course_code = BlockOf(b2).course_code
           /\ BlockOf(b1).block_type = BlockOf(b2).block_type
           /\ BlockOf(b1).group_number # BlockOf(b2).group_number

\* the (day, start) keys a block can be placed at in an empty schedule
CandidateKeys(block) ==
    UNION {LET g == available_slot_groups(block, room, EmptyDict)
           IN {k \in g[1] \cup g[2] :
                  can_assign(initialize_fresh_state, block, SlotOf(k), room)} :
           room \in Range(get_suitable_rooms(input, block))}

\* two single-group blocks of one cohort that can only go to one and the
\* same slot
CompeteForOneSlot(x, y) ==
    /\ x.id # y.id
    /\ x.is_single_group_course /\ y.is_single_group_course
    /\ SameCohort(x, y)
    /\ CandidateKeys(x) = CandidateKeys(y)
    /\ Cardinality(CandidateKeys(x)) = 1

C8_WithinAvailability ==
    \A b \in Live :
        LET a == current_assignments[b]
        IN \E av \in a.room.availability :
              /\ av.day = a.time_slot.day
              /\ av.start_time <= a.time_slot.start_time
              /\ av.end_time >= a.time_slot.start_time + AtHour(time_slot_duration)

\* a room and a preferred slot of the block's lecturer where can_assign
\* accepts the block in the current state
HasLegalPreferredSlot(block) ==
    \E room \in Range(input.halls) \cup Range(input.labs) :
        \E pref \in block.staff_member.timing_preferences :
            can_assign(cm, block, SlotOf(SlotKey(pref)), room)

\* C9 (P4): every assignment whose staff member is a Lecturer has its
\* (day, start) equal to the (day, start) of one of the lecturer's
\* timing_preferences; and the pass of the placement loop over a lecturer
\* block with no preferred slot that is free and legal leaves the assignments
\* map as it was, with no assignment of that block in it.
C9_LecturerPreferredOnly ==
    /\ [](\A b \in Live :
            BlockOf(b).staff_member.kind = "lecturer"
            => AssignedSlot(b) \in
                  {SlotKey(pref) : pref \in BlockOf(b).staff_member.timing_preferences})
    /\ [][(/\ pc = "place"
           /\ idx <= Len(sorted_blocks)
           /\ sorted_blocks[idx].staff_member.kind = "lecturer"
           /\ ~HasLegalPreferredSlot(sorted_blocks[idx])
           /\ idx' = idx + 1)
          => (/\ current_assignments' = current_assignments
              /\ \A b \in DOMAIN current_assignments' :
                    current_assignments'[b].block # sorted_blocks[idx])]_vars

\* an attempt ended with a lecturer block placed and another lecturer block
\* unassigned although a suitable room has a free slot, available to the room
\* for the whole slot, outside the lecturer's preferences
C9_Witness ==
    /\ AttemptDone
    /\ \E b \in Live : BlockOf(b).staff_member.kind = "lecturer"
    /\ \E block \in Range(blocks) :
          /\ block.staff_member.kind = "lecturer"
          /\ block.id \notin Live
          /\ \E room \in Range(get_suitable_rooms(input, block)) :
                \E k \in available_slot_groups_not_strict(block, room, current_assignments)[1] :
                    /\ k \notin {SlotKey(pref) : pref \in block.staff_member.timing_preferences}
                    /\ can_assign(cm, block, SlotOf(k), room)

\* C10: no assignment of a schedule the engine returns is at Monday 13:00.
C10_NoMonday1300 ==
    pc = "returned" =>
        \A b \in DOMAIN best_assignments :
            ~(/\ best_assignments[b].time_slot.day = MONDAY
              /\ best_assignments[b].time_slot.start_time = AtHour(13))

---------------------------------------------------------------------------
(* Properties of the constraint manager's operations.                      *)

\* C11: can_assign(block, slot, room) leaves the five indices and the
\* assignments map unchanged, whatever its result: ok, a constraint
\* violation, or an error raised inside a constraint and reported as a
\* rejection.
C11_CanAssignFrame ==
    [][last'.op = "can_assign"
       => (state' = state /\ current_assignments' = current_assignments)]_vars

\* a can_assign call in a non-empty state ended with an error raised by a
\* constraint, reported as a rejection
C11_Witness ==
    /\ last.op = "can_assign"
    /\ last.raised /\ ~last.ret
    /\ Live # {}

\* the (room key, slot key) pairs at which room_bookings holds block id b
RoomEntriesOf(b) ==
    {p \in UNION {{<<rk, sk>> : sk \in DOMAIN state.room_bookings[rk]} :
                    rk \in DOMAIN state.room_bookings} :
        state.room_bookings[p[1]][p[2]] = b}

\* the (key, position) pairs at which study_plan_slots lists block id b
PlanEntriesOf(b) ==
    {p \in UNION {{<<key, i>> : i \in DOMAIN state.study_plan_slots[key]} :
                    key \in DOMAIN state.study_plan_slots} :
        state.study_plan_slots[p[1]][p[2]] = b}

\* C12 (I1): make_assignment(block_id, a) called when block_id is already in
\* the assignments map returns failure and changes nothing: the assignments
\* map and the five indices stay as they were; so a block id is recorded at
\* most once (one room booking and one study-plan entry per live block id).
C12_PresentIdNoOp ==
    /\ [][(last'.op = "make_assignment" /\ last'.present)
          => (/\ ~last'.ret
              /\ state' = state
              /\ current_assignments' = current_assignments)]_vars
    /\ [](\A b \in Live :
            Cardinality(RoomEntriesOf(b)) = 1 /\ Cardinality(PlanEntriesOf(b)) = 1)

\* a second assignment of a placed block id, to a free room and slot with a
\* free staff member, was refused
C12_Witness ==
    /\ last.op = "make_assignment"
    /\ last.present /\ ~last.room_booked /\ ~last.staff_booked /\ ~last.none
    /\ ~last.ret
    /\ Live # {}

\* C13 (P7): reset() (initialize_fresh_state), called in any reachable state,
\* yields the empty state: all five indices and the assignments map are
\* empty; and every attempt of the placement loop begins in that state.
C13_ResetEmpties ==
    /\ last.op = "reset" => (state = create_empty /\ current_assignments = EmptyDict)
    /\ (pc = "place" /\ idx = 1) =>
          /\ state.room_bookings = EmptyDict
          /\ state.staff_bookings = EmptyDict
          /\ state.course_slots = EmptyDict
          /\ state.level_slots = EmptyDict
          /\ state.study_plan_slots = EmptyDict
          /\ current_assignments = EmptyDict

\* a later attempt begins, after an attempt that made assignments
C13_Witness ==
    /\ attempt >= 1
    /\ pc = "place" /\ idx = 1
    /\ last.op = "reset"
    /\ best_assignments # EmptyDict
    /\ current_assignments = EmptyDict

---------------------------------------------------------------------------
(* Properties of the attempt loop.                                         *)

\* executed attempt e beats executed attempt f: more blocks placed, or as
\* many with a higher mean soft score
Beats(e, f) ==
    \/ e.scheduled_count > f.scheduled_count
    \/ /\ e.scheduled_count = f.scheduled_count
       /\ ScoreGreater(e.attempt_score, f.attempt_score)

\* C14: the stored best, and so the map schedule_blocks returns, is the
\* assignments map of an executed attempt that no executed attempt beats (it
\* placed the maximum number of blocks and, among the attempts with that
\* maximum, has the highest mean soft score); and an attempt replaces the
\* stored best only if it placed strictly more blocks, or the same number
\* with a strictly higher score.
C14_BestOfExecuted ==
    /\ []((executed # << >>) =>
            \E i \in DOMAIN executed :
                /\ executed[i].assignments = best_assignments
                /\ executed[i].scheduled_count = best_count
                /\ executed[i].attempt_score = best_score
                /\ \A j \in DOMAIN executed : ~Beats(executed[j], executed[i]))
    /\ [][(best_assignments' # best_assignments)
          => (\/ scheduled_count > best_count
              \/ /\ scheduled_count = best_count
                 /\ ScoreGreater(evaluate_schedule(cm), best_score))]_vars

\* the run returned the map of its first attempt although a later attempt
\* produced a different map that did not beat it
C14_Witness ==
    /\ pc = "returned"
    /\ Len(executed) >= 2
    /\ best_assignments = executed[1].assignments
    /\ executed[2].assignments # executed[1].assignments
    /\ executed[2].assignments # EmptyDict

\* the early-termination condition: all blocks placed with a score >= 0.95
MetEarlyTermination(e) ==
    e.scheduled_count = Len(blocks) /\ ScorePerfect(e.attempt_score)

LoopOver == pc \in {"after_loop", "returned", "raised"}

C16_FatalIffNothingPlaced ==
    /\ pc = "raised" =>
          \A i \in DOMAIN executed :
              executed[i].scheduled_count = 0 /\ executed[i].assignments = EmptyDict
    /\ pc = "returned" =>
          /\ best_assignments # EmptyDict
          /\ \E i \in DOMAIN executed : executed[i].scheduled_count > 0
    /\ pc = "after_loop" => executed # << >>

\* a run with blocks to place ended with the fatal error after max_attempts
\* attempts that placed nothing
C16_Witness ==
    /\ pc = "raised"
    /\ blocks # << >>
    /\ Len(executed) = MaxAttempts
    /\ best_assignments = EmptyDict

\* C17: when a make_assignment call fails during an attempt, the attempt is
\* abandoned: no further block is tried or placed in that attempt (the step
\* after the failed call leaves the loop over the blocks and places nothing).
C17_FailedCommitAbandons ==
    [][(/\ pc = "place"
        /\ last.op = "make_assignment"
        /\ ~last.ret)
       => (/\ pc' # "place"
           /\ DOMAIN current_assignments' \subseteq DOMAIN current_assignments)]_vars

\* the positions of sorted_blocks whose block is recorded in the assignments
PlacedAt ==
    {i \in DOMAIN sorted_blocks :
        /\ sorted_blocks[i].id \in Live
        /\ current_assignments[sorted_blocks[i].id].block = sorted_blocks[i]}

UnplacedAt == DOMAIN sorted_blocks \ PlacedAt

Occurrences(seq, x) == Cardinality({i \in DOMAIN seq : seq[i] = x})

\* C18: a block for which no (room, slot) candidate passes can_assign is
\* left out of the attempt's assignments and the loop goes on with the next
\* block in priority order, in the same attempt; every pass of the loop
\* advances by exactly one block of an ordering of all the blocks, and the
\* attempt ends only after the last one, so at the end of the attempt the
\* placed blocks plus the unplaced blocks are all the blocks.
C18_UnplaceableSkipped ==
    /\ [](pc = "place" =>
            /\ Len(sorted_blocks) = Len(blocks)
            /\ \A i \in DOMAIN blocks :
                  Occurrences(sorted_blocks, blocks[i]) = Occurrences(blocks, blocks[i])
            /\ idx \in 1..(Len(sorted_blocks) + 1)
            /\ PlacedAt \subseteq 1..(idx - 1)
            /\ scheduled_count = Cardinality(PlacedAt)
            /\ AttemptDone =>
                  scheduled_count + Cardinality(UnplacedAt) = Len(blocks))
    /\ [][(pc = "place" /\ idx <= Len(sorted_blocks)) =>
            /\ pc' = "place"
            /\ idx' = idx + 1
            /\ attempt' = attempt
            /\ sorted_blocks' = sorted_blocks
            /\ executed' = executed
            /\ schedule_single_block(input, cm, sorted_blocks[idx]) = {} =>
                  /\ current_assignments' = current_assignments
                  /\ state' = state
                  /\ scheduled_count' = scheduled_count]_vars

\* an attempt is over in which a block without a candidate was passed over
\* and a block after it in priority order was placed
C18_Witness ==
    /\ pc = "place"
    /\ AttemptDone
    /\ \E i \in UnplacedAt : \E j \in PlacedAt :
          /\ i < j
          /\ sorted_blocks[i].id \notin Live

\* every entry of the dict old is an entry of the dict new
DictExtends(old, new) ==
    /\ DOMAIN old \subseteq DOMAIN new
    /\ \A k \in DOMAIN old : new[k] = old[k]

\* the list new starts with the list old
ListExtends(old, new) ==
    /\ Len(old) <= Len(new)
    /\ SubSeq(new, 1, Len(old)) = old

\* C20: between two resets the assignments map only grows: a step that is
\* not a reset keeps every recorded block id with the same assignment (same
\* slot and room) and keeps every entry of the indices: room and staff
\* bookings keep their block ids, the counts of course_slots do not go
\* down, and the lists of level_slots and study_plan_slots are only
\* appended to.
C20_OnlyGrowsBetweenResets ==
    [][last'.op # "reset" =>
         /\ DictExtends(current_assignments, current_assignments')
         /\ DOMAIN state.room_bookings \subseteq DOMAIN state'.room_bookings
         /\ \A k \in DOMAIN state.room_bookings :
               DictExtends(state.room_bookings[k], state'.room_bookings[k])
         /\ DOMAIN state.staff_bookings \subseteq DOMAIN state'.staff_bookings
         /\ \A k \in DOMAIN state.staff_bookings :
               DictExtends(state.staff_bookings[k], state'.staff_bookings[k])
         /\ DOMAIN state.course_slots \subseteq DOMAIN state'.course_slots
         /\ \A k \in DOMAIN state.course_slots :
               /\ DOMAIN state.course_slots[k] \subseteq DOMAIN state'.course_slots[k]
               /\ \A s \in DOMAIN state.course_slots[k] :
                     state.course_slots[k][s] <= state'.course_slots[k][s]
         /\ DOMAIN state.level_slots \subseteq DOMAIN state'.level_slots
         /\ \A k \in DOMAIN state.level_slots :
               /\ DOMAIN state.level_slots[k] \subseteq DOMAIN state'.level_slots[k]
               /\ \A d \in DOMAIN state.level_slots[k] :
                     ListExtends(state.level_slots[k][d], state'.level_slots[k][d])
         /\ DOMAIN state.study_plan_slots \subseteq DOMAIN state'.study_plan_slots
         /\ \A k \in DOMAIN state.study_plan_slots :
               ListExtends(state.study_plan_slots[k], state'.study_plan_slots[k])]_vars

\* a make_assignment call has just been rejected for a block id that is
\* recorded, beside another recorded block
C20_Witness ==
    /\ last.op = "make_assignment"
    /\ ~last.ret
    /\ last.present
    /\ Cardinality(Live) >= 2

---------------------------------------------------------------------------
(* Two calls of schedule_blocks under one iteration order of the slots.    *)

\* the orders in which a set of slot keys is iterated: by time, by time
\* backwards, and one that is neither
SlotOrders ==
    {<<SlotKey(Sun0900), SlotKey(Sun0930), SlotKey(Sun1100), SlotKey(Mon1300)>>,
     <<SlotKey(Mon1300), SlotKey(Sun1100), SlotKey(Sun0930), SlotKey(Sun0900)>>,
     <<SlotKey(Sun1100), SlotKey(Sun0900), SlotKey(Mon1300), SlotKey(Sun0930)>>}

Rank(order, key) == CHOOSE i \in DOMAIN order : order[i] = key

\* the element of the non-empty set keys that its iteration yields first
FirstIn(order, keys) ==
    CHOOSE k \in keys : \A j \in keys : Rank(order, k) <= Rank(order, j)

\* the loops of _schedule_single_block with the slots of a room iterated in
\* the given order: the first (room, slot) that passes can_assign
RECURSIVE FirstAssignableOrdered(_, _, _, _)
FirstAssignableOrdered(rooms, c, block, order) ==
    IF rooms = << >> THEN {}
    ELSE LET room == Head(rooms)
             g == available_slot_groups(block, room, c.current_assignments)
             ok1 == {k \in g[1] : can_assign(c, block, SlotOf(k), room)}
             ok2 == {k \in g[2] : can_assign(c, block, SlotOf(k), room)}
         IN IF ok1 # {} THEN {Assignment(block, SlotOf(FirstIn(order, ok1)), room)}
            ELSE IF ok2 # {} THEN {Assignment(block, SlotOf(FirstIn(order, ok2)), room)}
            ELSE FirstAssignableOrdered(Tail(rooms), c, block, order)

\* a placement whose slot order is not the one fixed for the calls
schedule_single_block_any_order(inp, c, block) ==
    FirstAssignable(get_suitable_rooms(inp, block), c, block)

\* SchedulingEngine._schedule_single_block under the slot order of the input
schedule_single_block_ordered(inp, c, block) ==
    FirstAssignableOrdered(get_suitable_rooms(inp, block), c, block, inp.slot_order)

\* the inputs together with the iteration order of the slots
OrderedInputs == {inp @@ [slot_order |-> o] : inp \in Inputs, o \in SlotOrders}

InitRuns == input \in OrderedInputs /\ EngineInit /\ PipeInit

\* one pass of the loop over sorted_blocks whose _schedule_single_block
\* returns an assignment, the slots iterated in the order of the input
PlaceBlockOrdered ==
    /\ pc = "place"
    /\ idx <= Len(sorted_blocks)
    /\ LET block == sorted_blocks[idx]
       IN \E assignment \in schedule_single_block_ordered(input, cm, block) :
            LET r == make_assignment(cm, block.id, assignment)
            IN /\ state' = r.cm.state
               /\ current_assignments' = r.cm.current_assignments
               /\ scheduled_count' = IF r.ret THEN scheduled_count + 1 ELSE scheduled_count
               /\ last' = CallOf(cm, block.id, assignment, r.ret)
    /\ idx' = idx + 1
    /\ UNCHANGED <<input, pc, attempt, sorted_blocks, best_assignments, best_score,
                   best_count, executed, runs,
                   pipevars>>

\* schedule_blocks is called again on the same engine with the same
\* arguments: the outcome of the first call is kept, the locals start
\* afresh, the constraint manager is as the first call left it
SecondRun ==
    /\ pc \in {"returned", "raised"}
    /\ runs = << >>
    /\ runs' = <<[outcome |-> pc, assignments |-> best_assignments]>>
    /\ pc' = "loop"
    /\ attempt' = 0
    /\ sorted_blocks' = << >>
    /\ idx' = 0
    /\ scheduled_count' = 0
    /\ best_assignments' = EmptyDict
    /\ best_score' = [num |-> 0, den |-> 1]
    /\ best_count' = 0
    /\ executed' = << >>
    /\ last' = NoCall
    /\ UNCHANGED <<input, state, current_assignments,
                   pipevars>>

NextRuns ==
    StartAttempt \/ PlaceBlockOrdered \/ SkipBlock \/ EndAttempt \/ Finish \/ SecondRun

SpecRuns == InitRuns /\ [][NextRuns]_vars

\* C19: two schedule_blocks calls on the same inputs under the same room
\* and slot order end alike: both raise, or both return, and then they
\* return the same assignments map (the same blocks, each with the same
\* room and slot).
C19_SameInputsSameSchedule ==
    (runs # << >> /\ pc \in {"returned", "raised"}) =>
        /\ runs[1].outcome = pc
        /\ pc = "returned" => runs[1].assignments = best_assignments

\* the second call has returned a schedule in which the first block placed
\* had another slot of its room that can_assign accepts on the fresh state
C19_Witness ==
    /\ runs # << >>
    /\ pc = "returned"
    /\ sorted_blocks # << >>
    /\ sorted_blocks[1].id \in DOMAIN best_assignments
    /\ LET a == best_assignments[sorted_blocks[1].id]
           g == available_slot_groups(a.block, a.room, EmptyDict)
       IN \E k \in g[1] \cup g[2] :
             /\ k # SlotKey(a.time_slot)
             /\ can_assign(initialize_fresh_state, a.block, SlotOf(k), a.room)

\* C21: outside an attempt no scheduler state persists: once schedule_blocks
\* has returned or raised, the five indices of the constraint manager and
\* its assignments map are empty.
C21_NoStateOutsideAttempt ==
    pc \in {"returned", "raised"} =>
        /\ state = create_empty
        /\ current_assignments = EmptyDict

AllRooms == Range(input.halls) \cup Range(input.labs)

\* the blocks recorded for the academic list of block at the slot
PlacedForListAt(block, slot) ==
    {b \in Live :
        /\ current_assignments[b].block.academic_list = block.academic_list
        /\ SlotKey(current_assignments[b].time_slot) = SlotKey(slot)}

\* block has parallel groups and the blocks recorded for its academic list
\* at the slot are other groups of its course and kind, none single-group;
\* the room and the staff member are free at the slot, the room is
\* available at the slot
ParallelGroupCase(block, slot, room) ==
    /\ block.total_groups > 1
    /\ PlacedForListAt(block, slot) # {}
    /\ \A b \in PlacedForListAt(block, slot) :
          LET other == current_assignments[b].block
          IN /\ other.course_code = block.course_code
             /\ other.block_type = block.block_type
             /\ other.group_number # block.group_number
             /\ ~other.is_single_group_course
    /\ \A b \in Live :
          SlotKey(current_assignments[b].time_slot) = SlotKey(slot) =>
             /\ get_room_key(current_assignments[b].room) # get_room_key(room)
             /\ current_assignments[b].block.staff_member.id # block.staff_member.id
    /\ check_room_availability(cm, block, slot, room)

\* the two blocks of the run are lecture groups of one course given by two
\* lecturers who both prefer the slot of key k and no other
TwoGroupsOneCommonSlot(k) ==
    /\ Len(sorted_blocks) = 2
    /\ sorted_blocks[1].course_code = sorted_blocks[2].course_code
    /\ sorted_blocks[1].academic_level = sorted_blocks[2].academic_level
    /\ sorted_blocks[1].block_type = "lecture" /\ sorted_blocks[2].block_type = "lecture"
    /\ sorted_blocks[1].staff_member.id # sorted_blocks[2].staff_member.id
    /\ \A i \in {1, 2} :
          {SlotKey(t) : t \in sorted_blocks[i].staff_member.timing_preferences} = {k}
    /\ Len(input.halls) >= 2
    /\ \A h \in {1, 2} :
          /\ k \in {SlotKey(t) : t \in input.halls[h].availability}
          /\ check_room_availability(cm, sorted_blocks[1], SlotOf(k), input.halls[h])

WantsPreferredLab(block) ==
    block.required_room_type = "lab" /\ block.preferred_rooms # << >>

\* no assignment recorded holds the room at the slot of key k
RoomFreeAt(room, k) ==
    \A b \in Live :
        ~(/\ get_room_key(current_assignments[b].room) = get_room_key(room)
          /\ SlotKey(current_assignments[b].time_slot) = k)

\* some preferred room of the block has a free slot that can_assign accepts
HasLegalPreferredRoomSlot(block) ==
    \E room \in Range(block.preferred_rooms) :
        \E k \in {SlotKey(t) : t \in room.availability} :
            RoomFreeAt(room, k) /\ can_assign(cm, block, SlotOf(k), room)

\* C23: a block that requires a lab and has preferred rooms is only ever
\* assigned to one of its preferred rooms, at a slot at which no other
\* block holds that room; in a pass of the loop over such a block, if no
\* preferred room has a free slot that can_assign accepts, nothing is
\* recorded: the block stays unassigned, whatever other labs are free.
C23_PreferredLabOrUnassigned ==
    /\ [](\A b \in Live :
            WantsPreferredLab(BlockOf(b)) =>
               /\ current_assignments[b].room \in Range(BlockOf(b).preferred_rooms)
               /\ \A b2 \in Live \ {b} :
                     ~(/\ get_room_key(current_assignments[b2].room)
                            = get_room_key(current_assignments[b].room)
                       /\ SlotKey(current_assignments[b2].time_slot)
                            = SlotKey(current_assignments[b].time_slot)))
    /\ [][(/\ pc = "place"
            /\ idx <= Len(sorted_blocks)
            /\ WantsPreferredLab(sorted_blocks[idx])
            /\ ~HasLegalPreferredRoomSlot(sorted_blocks[idx]))
           => current_assignments' = current_assignments]_vars

\* an attempt is over in which a lab block with preferred rooms is left
\* out while a lab outside its preferred rooms, open to non-specialist
\* courses, has a free slot, and another lab block sits in a preferred room
C23_Witness ==
    /\ pc = "place"
    /\ AttemptDone
    /\ \E i \in UnplacedAt :
          /\ WantsPreferredLab(sorted_blocks[i])
          /\ sorted_blocks[i].id \notin Live
          /\ \E lab \in Range(input.labs) \ Range(sorted_blocks[i].preferred_rooms) :
                /\ lab.used_in_non_specialist_courses
                /\ \E t \in lab.availability : RoomFreeAt(lab, SlotKey(t))
    /\ \E b \in Live :
          /\ WantsPreferredLab(BlockOf(b))
          /\ current_assignments[b].room \in Range(BlockOf(b).preferred_rooms)

SpecialistOnly(room) == room.kind = "lab" /\ ~room.used_in_non_specialist_courses

\* C24: a lab block whose preferred_rooms is empty is never assigned to a
\* lab with used_in_non_specialist_courses = false, and a block assigned to
\* such a lab lists it in its preferred_rooms.
C24_SpecialistLabsForPreferredOnly ==
    \A b \in Live :
        /\ (BlockOf(b).block_type = "lab" /\ BlockOf(b).preferred_rooms = << >>)
              => ~SpecialistOnly(current_assignments[b].room)
        /\ SpecialistOnly(current_assignments[b].room)
              => current_assignments[b].room \in Range(BlockOf(b).preferred_rooms)

\* an attempt is over in which a lab block without preferred rooms that
\* requires a lab is left out, while a specialist-only lab is large enough
\* for it and has a free slot that every other hard constraint accepts
C24_Witness ==
    /\ pc = "place"
    /\ AttemptDone
    /\ \E i \in UnplacedAt :
          LET block == sorted_blocks[i]
          IN /\ block.block_type = "lab"
             /\ block.required_room_type = "lab"
             /\ block.preferred_rooms = << >>
             /\ block.id \notin Live
             /\ \E lab \in Range(input.labs) :
                   /\ SpecialistOnly(lab)
                   /\ CapacityGate(lab, block.student_count)
                   /\ \E t \in lab.availability :
                         /\ check_room_booking(cm, block, t, lab)
                         /\ check_staff_booking(cm, block, t, lab)
                         /\ check_room_availability(cm, block, t, lab)
                         /\ check_single_group_conflict(cm, block, t, lab)

---------------------------------------------------------------------------
(* ScheduleGenerationEngine.run: fetch, validate, schedule, save, post.    *)

\* post_schedule_with_retry(api_data, max_retries=3)
max_retries == 3

\* validation messages of one level reported for the study plans
MaxMessages == 2

\* the study plans the backend delivers: no course, or course A alone
\* without labs, in halls open the full week
RunInputs ==
    {inp \in Inputs :
        /\ inp.halls[1].availability = FullWeek
        /\ Len(inp.course_assignments) <= 1
        /\ \A i \in DOMAIN inp.course_assignments : inp.course_assignments[i].lab_groups = 0}

InitPipe == input \in RunInputs /\ EngineInit /\ PipeInit

\* a step of run that returned False: run returns False
Abort(name) ==
    /\ steps_run' = Append(steps_run, name)
    /\ step' = "done"
    /\ result' = "failure"

\* a step of run that returned True: run goes on with the step after it
GoOn(name, following) ==
    /\ steps_run' = Append(steps_run, name)
    /\ step' = following
    /\ result' = result

\* _fetch_study_plans: study plans received, none found, or an exception
FetchStudyPlans ==
    /\ step = "fetch_study_plans"
    /\ \E outcome \in {"ok", "empty", "raise"} :
          IF outcome = "ok" THEN GoOn("fetch_study_plans", "fetch_facilities")
          ELSE Abort("fetch_study_plans")
    /\ UNCHANGED <<input, cmvars, last, enginevars, runs, validation_errors,
                   run_assignments, posts, posted>>

\* _fetch_facilities: halls or labs received, none found, or an exception
FetchFacilities ==
    /\ step = "fetch_facilities"
    /\ \E outcome \in {"ok", "empty", "raise"} :
          IF outcome = "ok" THEN GoOn("fetch_facilities", "validate_input_data")
          ELSE Abort("fetch_facilities")
    /\ UNCHANGED <<input, cmvars, last, enginevars, runs, validation_errors,
                   run_assignments, posts, posted>>

\* an input validation whose errors do not stop the run
ValidateInputData_ignores_errors ==
    /\ step = "validate_input_data"
    /\ \E errors \in 0..MaxMessages, warnings \in 0..MaxMessages, raises \in BOOLEAN :
          /\ validation_errors' = IF raises THEN validation_errors ELSE errors
          /\ IF raises THEN Abort("validate_input_data")
             ELSE GoOn("validate_input_data", "generate_schedule")
    /\ UNCHANGED <<input, cmvars, last, enginevars, runs, run_assignments, posts, posted>>

\* _validate_input_data: the validator reports errors and warnings, or raises
ValidateInputData ==
    /\ step = "validate_input_data"
    /\ \E errors \in 0..MaxMessages, warnings \in 0..MaxMessages, raises \in BOOLEAN :
          /\ validation_errors' = IF raises THEN validation_errors ELSE errors
          /\ IF raises \/ errors > 0 THEN Abort("validate_input_data")
             ELSE GoOn("validate_input_data", "generate_schedule")
    /\ UNCHANGED <<input, cmvars, last, enginevars, runs, run_assignments, posts, posted>>

\* _generate_schedule up to the call of schedule_blocks: the managers and
\* the engine are built (or building them raises) and the engine is entered
GenerateSchedule ==
    /\ step = "generate_schedule"
    /\ \E raises \in BOOLEAN :
          IF raises THEN Abort("generate_schedule")
          ELSE GoOn("generate_schedule", "schedule_blocks")
    /\ UNCHANGED <<input, cmvars, last, enginevars, runs, validation_errors,
                   run_assignments, posts, posted>>

\* a step of schedule_blocks, called by _generate_schedule
ScheduleBlocksStep ==
    /\ step = "schedule_blocks"
    /\ Next

\* schedule_blocks has returned: the assignments are kept (an empty map
\* fails the step), or it has raised: the step fails
GenerateScheduleEnd ==
    /\ step = "schedule_blocks"
    /\ pc \in {"returned", "raised"}
    /\ run_assignments' = IF pc = "returned" THEN best_assignments ELSE run_assignments
    /\ step' = IF pc = "returned" /\ best_assignments # EmptyDict THEN "save_results" ELSE "done"
    /\ result' = IF pc = "returned" /\ best_assignments # EmptyDict THEN result ELSE "failure"
    /\ UNCHANGED <<input, cmvars, last, enginevars, runs, steps_run, validation_errors,
                   posts, posted>>

\* _save_results up to the backend part: the files are written (or writing
\* raises); then the schedule is converted and validated for the backend:
\* valid, rejected, or an exception, which the inner handler only reports
SaveResults ==
    /\ step = "save_results"
    /\ \E files \in {"ok", "raise"}, backend \in {"valid", "invalid", "raise"} :
          IF files = "raise" THEN Abort("save_results")
          ELSE GoOn("save_results", IF backend = "valid" THEN "post" ELSE "saved")
    /\ UNCHANGED <<input, cmvars, last, enginevars, runs, validation_errors,
                   run_assignments, posts, posted>>

\* a retry loop that goes on posting after an accepted post
PostSchedule_no_stop ==
    /\ step = "post"
    /\ Len(posts) < max_retries
    /\ \E outcome \in {"accepted", "failed", "no_token"} :
          /\ posts' = Append(posts, outcome)
          /\ posted' = IF outcome = "accepted" THEN "true"
                       ELSE IF Len(posts) + 1 >= max_retries /\ posted = "none" THEN "false"
                       ELSE posted
          /\ step' = IF Len(posts) + 1 >= max_retries THEN "saved" ELSE step
    /\ UNCHANGED <<input, cmvars, last, enginevars, runs, result, steps_run,
                   validation_errors, run_assignments>>

\* one pass of the loop of post_schedule_with_retry: post_schedule_to_backend
\* posts and is accepted, posts and fails, or gets no token and does not post
PostSchedule ==
    /\ step = "post"
    /\ Len(posts) < max_retries
    /\ \E outcome \in {"accepted", "failed", "no_token"} :
          /\ posts' = Append(posts, outcome)
          /\ posted' = IF outcome = "accepted" THEN "true"
                       ELSE IF Len(posts) + 1 >= max_retries THEN "false"
                       ELSE posted
          /\ step' = IF outcome = "accepted" \/ Len(posts) + 1 >= max_retries
                     THEN "saved" ELSE step
    /\ UNCHANGED <<input, cmvars, last, enginevars, runs, result, steps_run,
                   validation_errors, run_assignments>>

\* the end of _save_results and of run: True is returned
CompleteRun ==
    /\ step = "saved"
    /\ step' = "done"
    /\ result' = "success"
    /\ UNCHANGED <<input, cmvars, last, enginevars, runs, steps_run, validation_errors,
                   run_assignments, posts, posted>>

NextPipe ==
    \/ FetchStudyPlans
    \/ FetchFacilities
    \/ ValidateInputData
    \/ GenerateSchedule
    \/ ScheduleBlocksStep
    \/ GenerateScheduleEnd
    \/ SaveResults
    \/ PostSchedule
    \/ CompleteRun

SpecPipe == InitPipe /\ [][NextPipe]_vars

StepOrder ==
    <<"fetch_study_plans", "fetch_facilities", "validate_input_data",
      "generate_schedule", "save_results">>

\* schedule_blocks has not been entered
EngineNotEntered ==
    /\ pc = "loop"
    /\ attempt = 0
    /\ executed = << >>
    /\ current_assignments = EmptyDict

\* C25: the steps of run are entered in the order fetch study plans, fetch
\* rooms, validate, schedule, save; a step is entered only if every step
\* before it succeeded, and after a failed step nothing more happens; if the
\* input validation reports an error the run has failed and schedule_blocks
\* is never entered.
C25_ValidationErrorsAbort ==
    /\ [](/\ Len(steps_run) <= Len(StepOrder)
          /\ steps_run = SubSeq(StepOrder, 1, Len(steps_run))
          /\ validation_errors > 0 =>
                /\ result = "failure"
                /\ step = "done"
                /\ EngineNotEntered
                /\ Len(steps_run) = 3
          /\ ~EngineNotEntered => Len(steps_run) >= 4
          /\ run_assignments # EmptyDict => Len(steps_run) >= 4
          /\ posts # << >> => Len(steps_run) = 5
          /\ result = "success" => Len(steps_run) = 5 /\ validation_errors = 0)
    /\ [][result = "failure" => UNCHANGED vars]_vars

\* the input validation has reported errors: the run has failed after its
\* third step
C25_Witness ==
    /\ validation_errors > 0
    /\ result = "failure"
    /\ steps_run = SubSeq(StepOrder, 1, 3)

\* C26: the schedule is posted at most max_retries = 3 times; only the last
\* attempt made can be an accepted one (posting stops at the first success
\* and an attempt follows only failed ones); post_schedule_with_retry
\* returns True iff some attempt was accepted, and False only after three
\* failed attempts; while posting, and after a submission that failed every
\* time, the assignments stay those the engine returned and the run ends
\* in success.
C26_PostAtMostThrice ==
    /\ [](/\ Len(posts) <= max_retries
          /\ \A i \in 1..(Len(posts) - 1) : posts[i] # "accepted"
          /\ posted = "true" <=> \E i \in DOMAIN posts : posts[i] = "accepted"
          /\ posted = "false" <=>
                /\ Len(posts) = max_retries
                /\ \A i \in DOMAIN posts : posts[i] # "accepted"
          /\ (step = "post" \/ posts # << >>) =>
                /\ run_assignments = best_assignments
                /\ run_assignments # EmptyDict
                /\ result # "failure"
          /\ (step = "done" /\ posts # << >>) => result = "success")
    /\ [][step = "post" => run_assignments' = run_assignments /\ result' = result]_vars

\* three attempts have failed, the last for want of a token, and the run
\* has ended in success with the engine's assignments
C26_Witness ==
    /\ step = "done"
    /\ result = "success"
    /\ posted = "false"
    /\ posts = <<"failed", "failed", "no_token">>
    /\ run_assignments # EmptyDict

\* the staff member of group g when the entries get their num_of_groups
\* consecutive numbers in list order
RECURSIVE StaffOfGroup(_, _)
StaffOfGroup(entries, g) ==
    IF g <= Head(entries).num_of_groups THEN Head(entries).staff
    ELSE StaffOfGroup(Tail(entries), g - Head(entries).num_of_groups)

RECURSIVE TotalGroups(_)
TotalGroups(entries) ==
    IF entries = << >> THEN 0
    ELSE Head(entries).num_of_groups + TotalGroups(Tail(entries))

\* the blocks of one kind expanded from a course are groups 1..groups in
\* order, each with the staff member its number falls to, the cohort's
\* students divided by groups, and the single-group flag iff groups = 1
ExpandedAsGroups(bs, kind, entries, groups, study_plan) ==
    /\ Len(bs) = groups
    /\ \A g \in DOMAIN bs :
          /\ bs[g].block_type = kind
          /\ bs[g].group_number = g
          /\ bs[g].total_groups = groups
          /\ bs[g].staff_member = StaffOfGroup(entries, g)
          /\ bs[g].student_count = study_plan.expected_students \div groups
          /\ bs[g].is_single_group_course <=> (groups = 1)

\* the course assignment is well formed: the group counts of its staff
\* entries add up to lecture_groups and to lab_groups
WellFormedCourse(course) ==
    /\ course.lecture_groups >= 1
    /\ TotalGroups(course.lecturers) = course.lecture_groups
    /\ TotalGroups(course.teaching_assistants) = course.lab_groups

RECURSIVE SumOfGroups(_)
SumOfGroups(courses) ==
    IF courses = << >> THEN 0
    ELSE Head(courses).lecture_groups + Head(courses).lab_groups + SumOfGroups(Tail(courses))

\* C27: the expansion of a well-formed course assignment is lecture_groups
\* lecture blocks numbered 1..lecture_groups by a counter that runs across
\* the lecturers in list order, then, when lab_groups > 0, lab_groups lab
\* blocks numbered 1..lab_groups across the teaching assistants; a block
\* has student_count = expected_students div groups and is single-group
\* iff groups = 1; a lecture block requires a hall, a lab block a lab iff
\* practical_in_lab; the run's blocks are these, course after course.
C27_BlockExpansion ==
    /\ \A i \in DOMAIN input.course_assignments :
          LET course == input.course_assignments[i]
              study_plan == input.study_plan_mapping[i]
              lectures == LectureBlocks(course, study_plan)
              labs == LabBlocks(course, study_plan)
          IN WellFormedCourse(course) =>
               /\ ExpandedAsGroups(lectures, "lecture", course.lecturers,
                                   course.lecture_groups, study_plan)
               /\ \A g \in DOMAIN lectures : lectures[g].required_room_type = "hall"
               /\ course.lab_groups = 0 => labs = << >>
               /\ course.lab_groups > 0 =>
                     /\ ExpandedAsGroups(labs, "lab", course.teaching_assistants,
                                         course.lab_groups, study_plan)
                     /\ \A g \in DOMAIN labs :
                           (labs[g].required_room_type = "lab") <=> course.practical_in_lab
    /\ (\A i \in DOMAIN input.course_assignments :
            WellFormedCourse(input.course_assignments[i]))
          => /\ Len(blocks) = SumOfGroups(input.course_assignments)
             /\ pc = "place" => Len(sorted_blocks) = SumOfGroups(input.course_assignments)

\* the blocks in use come from a course whose two lecture groups have a
\* lecturer each and whose lab groups are held in a hall
C27_Witness ==
    /\ pc = "place"
    /\ \E i \in DOMAIN input.course_assignments :
          LET course == input.course_assignments[i]
          IN /\ Len(course.lecturers) = 2
             /\ course.lecture_groups = 2
             /\ course.lab_groups = 2
             /\ ~course.practical_in_lab
    /\ \E j \in DOMAIN sorted_blocks :
          /\ sorted_blocks[j].block_type = "lab"
          /\ sorted_blocks[j].group_number = 2
          /\ sorted_blocks[j].required_room_type = "hall"

\* C28: block ids are unique: any two distinct blocks of one expansion, over
\* all course assignments of all study plans of the run, have different
\* ids, so make_assignment never refuses a block because its id is already
\* recorded.
C28_UniqueBlockIds ==
    /\ \A i, j \in DOMAIN sorted_blocks :
          i # j => sorted_blocks[i].id # sorted_blocks[j].id
    /\ ~(last.op = "make_assignment" /\ ~last.ret /\ last.present)

\* the heuristic priority in hundredths: +20 single group, +15 lecturer,
\* +10 preferred rooms, +8 requires lab, + student_count / 100
HeuristicPriority(b) ==
      (IF b.is_single_group_course THEN 2000 ELSE 0)
    + (IF b.staff_member.kind = "lecturer" THEN 1500 ELSE 0)
    + (IF b.preferred_rooms # << >> THEN 1000 ELSE 0)
    + (IF b.required_room_type = "lab" THEN 800 ELSE 0)
    + b.student_count

CandidateRoomCount(b) == Len(get_suitable_rooms(input, b))

\* the candidate slots over the candidate rooms in the empty state
CandidateSlotCount(b) == SumLens(get_suitable_rooms(input, b), b, EmptyDict)

SameSortKey(a, b) ==
    /\ a.is_single_group_course = b.is_single_group_course
    /\ CandidateRoomCount(a) = CandidateRoomCount(b)
    /\ CandidateSlotCount(a) = CandidateSlotCount(b)
    /\ HeuristicPriority(a) = HeuristicPriority(b)

\* a is not to be processed after b by the key alone
KeyAllowsBefore(a, b) ==
    IF a.is_single_group_course # b.is_single_group_course THEN a.is_single_group_course
    ELSE IF CandidateRoomCount(a) # CandidateRoomCount(b)
         THEN CandidateRoomCount(a) < CandidateRoomCount(b)
    ELSE IF CandidateSlotCount(a) # CandidateSlotCount(b)
         THEN CandidateSlotCount(a) < CandidateSlotCount(b)
    ELSE HeuristicPriority(a) >= HeuristicPriority(b)

ExpansionIndex(b) == CHOOSE i \in DOMAIN blocks : blocks[i] = b

\* the processing order of the blocks follows the key, equal keys in their
\* order of expansion
OrderedByKey(seq) ==
    \A i, j \in DOMAIN seq :
        i < j =>
           /\ KeyAllowsBefore(seq[i], seq[j])
           /\ SameSortKey(seq[i], seq[j]) =>
                 ExpansionIndex(seq[i]) < ExpansionIndex(seq[j])

\* C29: in every attempt the blocks are processed in descending order of
\* the key: single-group blocks before the others; with the same flag,
\* fewer candidate rooms first, then fewer candidate slots over those rooms
\* in the empty state, then the higher heuristic priority; blocks with
\* equal keys in their order of expansion. The order an attempt starts
\* with has this property and the attempt keeps that order to its end.
C29_PriorityOrder ==
    /\ [](pc = "place" /\ idx = 1 => OrderedByKey(sorted_blocks))
    /\ [][pc = "place" /\ pc' = "place" => sorted_blocks' = sorted_blocks]_vars

\* an attempt starts with an order that differs from the order of
\* expansion: a block goes before an earlier expanded one with the same
\* flag and the same numbers of candidate rooms and slots for its higher
\* heuristic priority, and two blocks with equal keys keep their order
C29_Witness ==
    /\ pc = "place"
    /\ idx = 1
    /\ \E i, j \in DOMAIN sorted_blocks :
          /\ i < j
          /\ ExpansionIndex(sorted_blocks[i]) > ExpansionIndex(sorted_blocks[j])
          /\ sorted_blocks[i].is_single_group_course = sorted_blocks[j].is_single_group_course
          /\ CandidateRoomCount(sorted_blocks[i]) = CandidateRoomCount(sorted_blocks[j])
          /\ CandidateSlotCount(sorted_blocks[i]) = CandidateSlotCount(sorted_blocks[j])
          /\ HeuristicPriority(sorted_blocks[i]) > HeuristicPriority(sorted_blocks[j])
    /\ \E i, j \in DOMAIN sorted_blocks :
          i < j /\ SameSortKey(sorted_blocks[i], sorted_blocks[j])

\* the candidate slots of a room that pass can_assign on the current state
LegalSlots(block, room) ==
    LET g == available_slot_groups(block, room, current_assignments)
    IN {k \in g[1] \cup g[2] : can_assign(cm, block, SlotOf(k), room)}

\* the positions of the candidate rooms that have a candidate slot passing
\* can_assign on the current state
LegalRoomsAt(block) ==
    {i \in DOMAIN get_suitable_rooms(input, block) :
        LegalSlots(block, get_suitable_rooms(input, block)[i]) # {}}

\* the block of this pass of the loop is recorded by the pass in the room
\* at position i of its candidate rooms, at a slot that passes can_assign
\* and is of the first part of the slot list that holds such a slot
CommittedAt(block, i) ==
    LET room == get_suitable_rooms(input, block)[i]
        g == available_slot_groups(block, room, current_assignments)
        legal == LegalSlots(block, room)
        first == IF g[1] \cap legal # {} THEN g[1] \cap legal ELSE g[2] \cap legal
    IN /\ block.id \in DOMAIN current_assignments'
       /\ current_assignments'[block.id].block = block
       /\ current_assignments'[block.id].room = room
       /\ SlotKey(current_assignments'[block.id].time_slot) \in first
       /\ scheduled_count' = scheduled_count + 1

\* C30: for each block the engine commits the first (room, slot) pair, in
\* candidate-room order and then candidate-slot order, that passes
\* can_assign on the current state: the block goes to the first candidate
\* room that has a legal slot, which has the smallest |capacity -
\* student_count| among the candidate rooms with a legal slot, and the
\* block is left unassigned only if no candidate pair passes can_assign.
C30_FirstLegalPairCommitted ==
    [][(pc = "place" /\ idx <= Len(sorted_blocks)) =>
          LET block == sorted_blocks[idx]
              rooms == get_suitable_rooms(input, block)
              legal == LegalRoomsAt(block)
          IN IF legal = {}
             THEN current_assignments' = current_assignments
             ELSE LET first == CHOOSE i \in legal : \A j \in legal : i <= j
                  IN /\ CommittedAt(block, first)
                     /\ \A j \in legal :
                           Abs(rooms[first].capacity - block.student_count)
                              <= Abs(rooms[j].capacity - block.student_count)]_vars

\* ceil(0.8 x student_count)
CeilRatio(student_count) == (8 * student_count + 9) \div 10

\* the rooms of the kind a block requires
RoomsOfRequiredKind(block) ==
    IF block.required_room_type = "lab"
    THEN IF block.preferred_rooms # << >> THEN Range(block.preferred_rooms)
         ELSE {lab \in Range(input.labs) : lab.used_in_non_specialist_courses}
    ELSE Range(input.halls)

\* rooms is a list without repetition of exactly the rooms of the required
\* kind that pass the capacity gate, by non-decreasing |capacity - student_count|
IsCandidateRoomList(rooms, block) ==
    /\ Range(rooms) = {r \in RoomsOfRequiredKind(block) :
                          r.capacity >= CeilRatio(block.student_count)}
    /\ Cardinality(Range(rooms)) = Len(rooms)
    /\ \A i, j \in DOMAIN rooms :
          i < j => Abs(rooms[i].capacity - block.student_count)
                      <= Abs(rooms[j].capacity - block.student_count)

\* the student counts of the blocks handed to the resource manager
StudentCounts == {20, 31, 32, 40, 44, 45}

Lab3 == Lab(3, 36, FullWeek, TRUE)

\* catalogues whose order is and is not the order of capacity
RMHalls ==
    {<<Hall(1, 40, FullWeek), Hall(2, 100, FullWeek)>>,
     <<Hall(2, 100, FullWeek), Hall(1, 40, FullWeek)>>,
     <<Hall(2, 100, FullWeek), Hall(3, 36, FullWeek), Hall(4, 30, FullWeek),
       Hall(1, 40, FullWeek)>>}

RMLabs == {<<Lab1, Lab2>>, <<Lab2, Lab3, Lab1>>}

\* (practical_in_lab, preferred_labs) of the course
RMLabOptions == LabOptions \cup {<<TRUE, <<Lab2, Lab1>> >>}

\* a catalogue and one course with a lecture group and a lab group
RMInputs ==
    {[halls |-> p[1], labs |-> p[2],
      course_assignments |->
          <<CourseA(1, <<[staff |-> Lecturer(1, {Sun0900}), num_of_groups |-> 1]>>,
                    1, TeachingAssistant(3, {Sun1100}), p[3][1], p[3][2])>>,
      study_plan_mapping |-> <<StudyPlan(1)>>] :
        p \in RMHalls \X RMLabs \X RMLabOptions}

InitRM == input \in RMInputs /\ EngineInit /\ PipeInit

\* the blocks a caller can pass: the blocks of the course, of any size
RMBlocks == {[b EXCEPT !.student_count = n] : b \in Range(blocks), n \in StudentCounts}

\* get_suitable_rooms(block): it reads the catalogue and builds a new list
RMGetSuitableRooms ==
    /\ \E block \in RMBlocks :
          last' = [op |-> "get_suitable_rooms", block |-> block,
                   ret |-> get_suitable_rooms(input, block)]
    /\ UNCHANGED <<input, state, current_assignments, pc, attempt, sorted_blocks, idx,
                   scheduled_count, best_assignments, best_score, best_count, executed,
                   runs, pipevars>>

\* the slots of one day with nothing passed over on Monday
RECURSIVE DayTimeSlots_no_skip(_, _, _, _)
DayTimeSlots_no_skip(day, current_hour, duration, break_duration) ==
    IF current_hour + duration <= 19
    THEN <<TimePreference(day, AtHour(current_hour), AtHour(current_hour + duration))>>
         \o DayTimeSlots_no_skip(day,
                                 IF break_duration > 0
                                 THEN current_hour + duration + break_duration
                                 ELSE current_hour + duration,
                                 duration, break_duration)
    ELSE << >>

\* the slots of one day from current_hour on, as the while loop of
\* _generate_time_slots builds them: Monday 13:00 and 14:00 are passed over
\* by one hour
RECURSIVE DayTimeSlots(_, _, _, _)
DayTimeSlots(day, current_hour, duration, break_duration) ==
    IF current_hour + duration <= 19
    THEN IF day = MONDAY /\ current_hour \in {13, 14}
         THEN DayTimeSlots(day, current_hour + 1, duration, break_duration)
         ELSE <<TimePreference(day, AtHour(current_hour), AtHour(current_hour + duration))>>
              \o DayTimeSlots(day,
                              IF break_duration > 0
                              THEN current_hour + duration + break_duration
                              ELSE current_hour + duration,
                              duration, break_duration)
    ELSE << >>

\* ResourceManager._generate_time_slots
generate_time_slots(duration, break_duration) ==
    DayTimeSlots(SUNDAY, 9, duration, break_duration)
    \o DayTimeSlots(MONDAY, 9, duration, break_duration)
    \o DayTimeSlots(TUESDAY, 9, duration, break_duration)
    \o DayTimeSlots(WEDNESDAY, 9, duration, break_duration)
    \o DayTimeSlots(THURSDAY, 9, duration, break_duration)

\* the slots of one day from current_hour on, as the while loop of
\* generate_base_availability builds them (slot_duration = 2): Monday 13:00
\* and 12:00 are passed over by a whole slot
RECURSIVE DayBaseAvailability(_, _)
DayBaseAvailability(day, current_hour) ==
    IF current_hour + 2 <= 19
    THEN IF (day = MONDAY /\ current_hour = 13) \/ (day = MONDAY /\ current_hour = 12)
         THEN DayBaseAvailability(day, current_hour + 2)
         ELSE <<TimePreference(day, AtHour(current_hour), AtHour(current_hour + 2))>>
              \o DayBaseAvailability(day, current_hour + 2)
    ELSE << >>

\* BaseAvailability.generate_base_availability
generate_base_availability ==
    DayBaseAvailability(SUNDAY, 9) \o DayBaseAvailability(MONDAY, 9)
    \o DayBaseAvailability(TUESDAY, 9) \o DayBaseAvailability(WEDNESDAY, 9)
    \o DayBaseAvailability(THURSDAY, 9)

\* the slot and break durations a resource manager is built with
SlotDurations == {1, 2, 3}
BreakDurations == {0, 1}

\* ResourceManager(halls, labs, time_slot_duration, break_duration) fills
\* self.time_slots
RMGenerateTimeSlots ==
    /\ \E duration \in SlotDurations, break_duration \in BreakDurations :
          last' = [op |-> "generate_time_slots", duration |-> duration,
                   break_duration |-> break_duration,
                   ret |-> generate_time_slots(duration, break_duration)]
    /\ UNCHANGED <<input, state, current_assignments, pc, attempt, sorted_blocks, idx,
                   scheduled_count, best_assignments, best_score, best_count, executed,
                   runs, pipevars>>

\* BaseAvailability.generate_base_availability()
RMGenerateBaseAvailability ==
    /\ last' = [op |-> "generate_base_availability", ret |-> generate_base_availability]
    /\ UNCHANGED <<input, state, current_assignments, pc, attempt, sorted_blocks, idx,
                   scheduled_count, best_assignments, best_score, best_count, executed,
                   runs, pipevars>>

NextRM == RMGetSuitableRooms \/ RMGenerateTimeSlots \/ RMGenerateBaseAvailability

SpecRM == InitRM /\ [][NextRM]_vars

\* C31: get_suitable_rooms returns exactly the rooms of the required kind
\* (lab block: the preferred rooms if any, otherwise the labs with
\* used_in_non_specialist_courses; hall block: the halls) whose capacity is
\* at least ceil(0.8 x student_count), by non-decreasing |capacity -
\* student_count|; the call changes neither the catalogue nor the booking
\* state.
C31_CandidateRooms ==
    /\ [](last.op = "get_suitable_rooms" => IsCandidateRoomList(last.ret, last.block))
    /\ [][last'.op = "get_suitable_rooms" =>
             /\ input' = input
             /\ state' = state
             /\ current_assignments' = current_assignments]_vars

\* a call for a block with a room of the required kind too small for it and
\* a candidate room whose capacity is exactly ceil(0.8 x student_count),
\* below the student count, that returned two rooms against their order in
\* the catalogue
C31_Witness ==
    /\ last.op = "get_suitable_rooms"
    /\ \E r \in RoomsOfRequiredKind(last.block) :
          r.capacity < CeilRatio(last.block.student_count)
    /\ \E r \in Range(last.ret) :
          /\ r.capacity = CeilRatio(last.block.student_count)
          /\ r.capacity < last.block.student_count
    /\ last.ret # SeqFilter(suitable_rooms_no_gate(input, last.block), Range(last.ret))

\* the slot starts of a room's availability that no live assignment uses in
\* that room
FreeStarts(room) ==
    {SlotKey(slot) : slot \in room.availability}
    \ {SlotKey(current_assignments[b].time_slot) :
          b \in {b \in Live : current_assignments[b].room = room}}

PreferredStarts(block) == {SlotKey(slot) : slot \in block.staff_member.timing_preferences}

\* C32: for the block of a teaching assistant the candidate slots of a room
\* are all the slot starts of the room's availability that no live
\* assignment uses in that room, preferred or not, the preferred ones listed
\* before the others; a block of a teaching assistant is placed outside the
\* assistant's timing preferences only when no preferred slot of that room
\* passes can_assign.
C32_TaSlotsSoftPreference ==
    /\ [](pc = "place" /\ idx <= Len(sorted_blocks)
             /\ sorted_blocks[idx].staff_member.kind = "ta" =>
            \A room \in AllRooms :
                LET g == available_slot_groups(sorted_blocks[idx], room, current_assignments)
                IN /\ g[1] \cup g[2] = FreeStarts(room)
                   /\ g[1] = FreeStarts(room) \cap PreferredStarts(sorted_blocks[idx])
                   /\ g[2] = FreeStarts(room) \ PreferredStarts(sorted_blocks[idx])
                   /\ get_available_slots(sorted_blocks[idx], room, current_assignments)
                         = {SlotOf(k) : k \in FreeStarts(room)})
    /\ [][(/\ pc = "place"
           /\ idx <= Len(sorted_blocks)
           /\ sorted_blocks[idx].staff_member.kind = "ta"
           /\ sorted_blocks[idx].id \notin Live
           /\ sorted_blocks[idx].id \in DOMAIN current_assignments'
           /\ SlotKey(current_assignments'[sorted_blocks[idx].id].time_slot)
                 \notin PreferredStarts(sorted_blocks[idx]))
          => \A k \in FreeStarts(current_assignments'[sorted_blocks[idx].id].room)
                        \cap PreferredStarts(sorted_blocks[idx]) :
                ~can_assign(cm, sorted_blocks[idx], SlotOf(k),
                            current_assignments'[sorted_blocks[idx].id].room)]_vars

\* a block of a teaching assistant was placed outside the assistant's
\* preferences, in a room that had a free preferred slot
C32_Witness ==
    /\ pc = "place"
    /\ idx > 1
    /\ last.op = "make_assignment"
    /\ last.ret
    /\ LET block == sorted_blocks[idx - 1]
       IN /\ block.staff_member.kind = "ta"
          /\ block.id \in Live
          /\ current_assignments[block.id].block = block
          /\ AssignedSlot(block.id) \notin PreferredStarts(block)
          /\ FreeStarts(current_assignments[block.id].room) \cap PreferredStarts(block) # {}

---------------------------------------------------------------------------
(* The post-hoc validator.                                                 *)

\* the ids grouped under a key by a defaultdict(list) that hold more than
\* one id: the keys with a conflict
KeysWithMany(assignments, Key(_)) ==
    {Key(assignments[a]) : a \in {a \in DOMAIN assignments :
        \E b \in DOMAIN assignments : b # a /\ Key(assignments[b]) = Key(assignments[a])}}

RoomTimeKey(assignment) ==
    <<get_room_key(assignment.room), assignment.time_slot.day, assignment.time_slot.start_time>>

StaffTimeKey(assignment) ==
    <<assignment.block.staff_member.id, assignment.time_slot.day,
      assignment.time_slot.start_time>>

StudentTimeKey(assignment) ==
    <<assignment.block.academic_list, assignment.block.academic_level,
      assignment.time_slot.day, assignment.time_slot.start_time>>

\* ScheduleValidator._check_room_conflicts: the keys reported
check_room_conflicts(assignments) == KeysWithMany(assignments, RoomTimeKey)

\* ScheduleValidator._check_staff_conflicts: the keys reported
check_staff_conflicts(assignments) == KeysWithMany(assignments, StaffTimeKey)

\* a student check that reports every cohort slot with several assignments
check_student_conflicts_any_two(assignments) == KeysWithMany(assignments, StudentTimeKey)

\* ScheduleValidator._check_student_conflicts: the keys with more than one
\* distinct course_code
check_student_conflicts(assignments) ==
    {k \in KeysWithMany(assignments, StudentTimeKey) :
        Cardinality({assignments[a].block.course_object.course_code :
                        a \in {a \in DOMAIN assignments :
                                  StudentTimeKey(assignments[a]) = k}}) > 1}

\* ScheduleValidator._check_room_availability_conflicts: the ids reported
check_room_availability_conflicts(assignments) ==
    {a \in DOMAIN assignments :
        ~\E availability \in assignments[a].room.availability :
            /\ availability.day = assignments[a].time_slot.day
            /\ availability.start_time <= assignments[a].time_slot.start_time
            /\ availability.end_time >= assignments[a].time_slot.end_time}

\* ScheduleValidator._check_capacity_violations: the ids reported
check_capacity_violations(assignments) ==
    {a \in DOMAIN assignments :
        assignments[a].block.student_count > assignments[a].room.capacity}

\* ScheduleValidator.validate_schedule_comprehensive: is_valid
validate_schedule_comprehensive(assignments) ==
    /\ check_room_conflicts(assignments) = {}
    /\ check_staff_conflicts(assignments) = {}
    /\ check_student_conflicts(assignments) = {}
    /\ check_room_availability_conflicts(assignments) = {}
    /\ check_capacity_violations(assignments) = {}

\* C33: every schedule schedule_blocks returns passes the post-hoc
\* validator: validate_schedule_comprehensive reports no ROOM_CONFLICT,
\* STAFF_CONFLICT, STUDENT_CONFLICT, ROOM_AVAILABILITY_CONFLICT or
\* CAPACITY_VIOLATION for it.
C33_ReturnedSchedulePassesValidator ==
    pc = "returned" => validate_schedule_comprehensive(best_assignments)

\* a final verification that looks at the rooms only
verify_final_schedule_rooms_only(assignments) ==
    \A a, b \in DOMAIN assignments :
        (a # b /\ SlotKey(assignments[a].time_slot) = SlotKey(assignments[b].time_slot))
        => get_room_key(assignments[a].room) # get_room_key(assignments[b].room)

\* SchedulingEngine._verify_final_schedule: TRUE iff no conflict is found.
\* The assignments are grouped by (day, start_time); in a group of several,
\* a room key or a staff id met again in rooms_used or staff_used is a
\* conflict
verify_final_schedule(assignments) ==
    \A time_key \in {SlotKey(assignments[a].time_slot) : a \in DOMAIN assignments} :
        LET slot_assignments ==
                {a \in DOMAIN assignments : SlotKey(assignments[a].time_slot) = time_key}
            rooms_used == {get_room_key(assignments[a].room) : a \in slot_assignments}
            staff_used == {assignments[a].block.staff_member.id : a \in slot_assignments}
        IN Cardinality(slot_assignments) > 1 =>
              /\ Cardinality(rooms_used) = Cardinality(slot_assignments)
              /\ Cardinality(staff_used) = Cardinality(slot_assignments)

\* two distinct assignments have the same (day, start) and share the
\* composite room key or the staff id
HasDoubleBooking(assignments) ==
    \E a, b \in DOMAIN assignments :
        /\ a # b
        /\ assignments[a].time_slot.day = assignments[b].time_slot.day
        /\ assignments[a].time_slot.start_time = assignments[b].time_slot.start_time
        /\ \/ get_room_key(assignments[a].room) = get_room_key(assignments[b].room)
           \/ assignments[a].block.staff_member.id = assignments[b].block.staff_member.id

\* the maps of two assignments, of the first block and of another one, over
\* the slots and rooms of the run
VerifyMaps ==
    {Put(Put(EmptyDict, p[1][1].id, Assignment(p[1][1], p[2], p[4])),
         p[1][2].id, Assignment(p[1][2], p[3], p[5])) :
        p \in {q \in Range(blocks) \X Range(blocks) : q[1] = blocks[1] /\ q[1].id # q[2].id}
              \X CMSlots \X CMSlots \X AllRooms \X AllRooms}

\* C34: the final verification reports a conflict for a map iff two
\* distinct assignments of it have the same (day, start) and share the
\* composite room key or the staff id; whatever it reports, schedule_blocks
\* returns the best map unchanged; it reports no conflict for any map the
\* placement loop produces.
C34_FinalVerification ==
    /\ [](pc = "loop" /\ attempt = 0 =>
            \A m \in VerifyMaps : ~verify_final_schedule(m) <=> HasDoubleBooking(m))
    /\ [](~verify_final_schedule(current_assignments) <=> HasDoubleBooking(current_assignments))
    /\ [](pc \in {"place", "loop", "after_loop", "returned"} =>
            /\ verify_final_schedule(current_assignments)
            /\ verify_final_schedule(best_assignments))
    /\ [][pc = "after_loop" /\ pc' = "returned" => best_assignments' = best_assignments]_vars

\* a run returned a map with two assignments at one (day, start), which the
\* final verification compares and accepts, while maps over the same
\* blocks and rooms exist for which it reports a room conflict only and a
\* staff conflict only
C34_Witness ==
    /\ pc = "returned"
    /\ \E a, b \in DOMAIN best_assignments :
          a # b /\ SlotKey(best_assignments[a].time_slot) = SlotKey(best_assignments[b].time_slot)
    /\ \E m \in VerifyMaps :
          ~verify_final_schedule(m) /\ verify_final_schedule_rooms_only(m)
    /\ \E m \in VerifyMaps :
          ~verify_final_schedule_rooms_only(m)
          /\ Cardinality({m[a].block.staff_member.id : a \in DOMAIN m}) = 2

\* the blocks of the attempt have pairwise distinct ids
DistinctIds ==
    \A i, j \in DOMAIN sorted_blocks : i # j => sorted_blocks[i].id # sorted_blocks[j].id

\* C35: in the placement loop, when all blocks have pairwise distinct ids, a
\* make_assignment issued for a (block, slot, room) for which can_assign has
\* just returned ok on the same state always succeeds; so scheduled_count
\* is the size of the assignments map throughout the attempt and goes up by
\* one exactly in the passes whose block has a candidate pair that passes
\* can_assign: at the end of the attempt it is the number of those blocks.
C35_CommitAfterCheckSucceeds ==
    /\ [](pc = "place" /\ DistinctIds =>
            /\ last.op = "make_assignment" => last.ret
            /\ scheduled_count = Cardinality(Live)
            /\ scheduled_count = Cardinality(PlacedAt))
    /\ [][(pc = "place" /\ idx <= Len(sorted_blocks) /\ DistinctIds) =>
             IF LegalRoomsAt(sorted_blocks[idx]) # {}
             THEN /\ scheduled_count' = scheduled_count + 1
                  /\ last'.op = "make_assignment"
                  /\ last'.ret
                  /\ DOMAIN current_assignments' = Live \cup {sorted_blocks[idx].id}
             ELSE /\ scheduled_count' = scheduled_count
                  /\ current_assignments' = current_assignments]_vars

\* an attempt over blocks with distinct ids is over: the last pass committed
\* a block after can_assign, an earlier block had no candidate, and the
\* count is the size of the map
C35_Witness ==
    /\ pc = "place"
    /\ AttemptDone
    /\ DistinctIds
    /\ last.op = "make_assignment"
    /\ last.ret
    /\ UnplacedAt # {}
    /\ scheduled_count = Cardinality(Live)
    /\ scheduled_count >= 2

\* C36: within one run every attempt starts from the same empty state with
\* the same block order and candidate order, so every attempt produces the
\* assignments, the count and the score of attempt 0; the stored best is
\* set by attempt 0 and never replaced by a later attempt, and the returned
\* map is attempt 0's assignments.
C36_AttemptsRepeatAttemptZero ==
    /\ [](\A i \in DOMAIN executed : executed[i] = executed[1])
    /\ [](executed # << >> =>
            /\ best_assignments = executed[1].assignments
            /\ best_count = executed[1].scheduled_count
            /\ best_score = executed[1].attempt_score)
    /\ [][(executed # << >> /\ executed' # << >>) =>
             /\ best_assignments' = best_assignments
             /\ best_count' = best_count
             /\ best_score' = best_score]_vars
    /\ [](pc = "returned" => executed # << >> /\ best_assignments = executed[1].assignments)
    /\ [](pc = "place" /\ idx = 1 /\ executed # << >> =>
            /\ state = create_empty
            /\ current_assignments = EmptyDict
            /\ sorted_blocks = sort_blocks_by_priority(blocks, input, initialize_fresh_state))

\* a run returned after a second attempt, whose first attempt placed a
\* block at a slot of its room while another slot of that room passed
\* can_assign as well
C36_Witness ==
    /\ pc = "returned"
    /\ Len(executed) = 2
    /\ executed[2].assignments # EmptyDict
    /\ \E b \in DOMAIN executed[1].assignments :
          LET a == executed[1].assignments[b]
              g == available_slot_groups(a.block, a.room, EmptyDict)
          IN \E k \in g[1] \cup g[2] :
                /\ k # SlotKey(a.time_slot)
                /\ can_assign(initialize_fresh_state, a.block, SlotOf(k), a.room)

---------------------------------------------------------------------------
(* The constraint manager driven directly over two study plans.            *)

\* the study plans of the second course: the cohort of the first course,
\* another level of its list, another list
OtherPlans ==
    {StudyPlan(1), StudyPlan(2),
     [academic_list |-> "IT", academic_level |-> 1, expected_students |-> 40]}

\* two halls free at the same slots; a single-group course A of CS level 1
\* and a course B of two lecture groups, each with a lecturer of its own
CohortInputs ==
    {[halls |-> <<Hall(1, 40, {Sun0900, Sun1100}), Hall(2, 100, {Sun0900, Sun1100})>>,
      labs |-> << >>,
      course_assignments |->
          <<CourseA(1, <<[staff |-> Lecturer(1, {Sun0900}), num_of_groups |-> 1]>>,
                    0, TeachingAssistant(3, {Sun1100}), TRUE, << >>),
            CourseB(2, Lecturer(2, {Sun0900, Sun1100}))>>,
      study_plan_mapping |-> <<StudyPlan(1), plan>>] : plan \in OtherPlans}

InitCohort == input \in CohortInputs /\ EngineInit /\ PipeInit

SpecCohort == InitCohort /\ [][NextCM]_vars

\* the live blocks of the academic list of block at the (day, start) of slot
SameListAt(block, slot) ==
    {b \in Live :
        /\ current_assignments[b].block.academic_list = block.academic_list
        /\ current_assignments[b].time_slot.day = slot.day
        /\ current_assignments[b].time_slot.start_time = slot.start_time}

\* C37: the cohort check ignores academic_level: can_assign rejects a block
\* at a (day, start) where a block of the same academic_list is placed
\* whenever the block itself or any block placed there for that list is
\* single-group, whatever the academic levels of the two; blocks of
\* different academic lists never constrain each other through this rule
\* (with no block of the list at the slot the check passes).
C37_CohortCheckIgnoresLevel ==
    \A block \in CMBlocks, slot \in CMSlots, room \in AllRooms :
        /\ (/\ SameListAt(block, slot) # {}
            /\ \/ block.is_single_group_course
               \/ \E b \in SameListAt(block, slot) :
                     current_assignments[b].block.is_single_group_course)
           => /\ ~check_single_group_conflict(cm, block, slot, room)
              /\ ~can_assign(cm, block, slot, room)
        /\ SameListAt(block, slot) = {} => check_single_group_conflict(cm, block, slot, room)

\* a can_assign call found neither the room nor the staff member booked and
\* returned False, in a state where a single-group block of level 1 is
\* placed at a slot and a block of level 2 of the same list passes every
\* check but the cohort check there
C37_Witness ==
    /\ last.op = "can_assign"
    /\ ~last.ret
    /\ ~last.room_booked
    /\ ~last.staff_booked
    /\ ~last.none
    /\ \E block \in CMBlocks, slot \in CMSlots, room \in AllRooms :
          /\ ~block.course_object.is_none
          /\ check_room_booking(cm, block, slot, room)
          /\ check_staff_booking(cm, block, slot, room)
          /\ check_room_availability(cm, block, slot, room)
          /\ check_lab_requirements(cm, block, slot, room)
          /\ ~check_single_group_conflict(cm, block, slot, room)
          /\ \E b \in SameListAt(block, slot) :
                /\ current_assignments[b].block.is_single_group_course
                /\ current_assignments[b].block.academic_level # block.academic_level

---------------------------------------------------------------------------
(* The gap score, with the constraint manager driven directly over a day   *)
(* of five slots.                                                          *)

Sun1300 == TimePreference(SUNDAY, AtHour(13), AtHour(15))
Sun1500 == TimePreference(SUNDAY, AtHour(15), AtHour(17))

\* one hall open from Sunday 09:00 to 17:00 and on Monday; a course of two
\* lecture groups and two lab groups held in the hall
GapInputs ==
    {[halls |-> <<Hall(1, 40, {Sun0900, Sun0930, Sun1100, Sun1300, Sun1500, Mon1300})>>,
      labs |-> << >>,
      course_assignments |->
          <<CourseA(2, <<[staff |-> Lecturer(1, {Sun0900}), num_of_groups |-> 2]>>,
                    2, TeachingAssistant(3, {Sun1100}), FALSE, << >>)>>,
      study_plan_mapping |-> <<StudyPlan(1)>>]}

InitGaps == input \in GapInputs /\ EngineInit /\ PipeInit

\* make_assignment(block.id, Assignment(block, slot, room)) for a block of
\* the run
GapMakeAssignment ==
    /\ \E block \in Range(blocks), slot \in CMSlots, room \in AllRooms :
          LET assignment == Assignment(block, slot, room)
              r == make_assignment(cm, block.id, assignment)
          IN /\ Cardinality(DOMAIN r.cm.current_assignments) <= MaxLive
             /\ state' = r.cm.state
             /\ current_assignments' = r.cm.current_assignments
             /\ last' = [op |-> "make_assignment", ret |-> r.ret]
    /\ UNCHANGED <<input, pc, attempt, sorted_blocks, idx, scheduled_count,
                   best_assignments, best_score, best_count, executed, runs,
                   pipevars>>

\* the blocks whose gap score is asked: the first block of the run, as it
\* is and as a block of the cohort of level 2
GapBlocks == {blocks[1], [blocks[1] EXCEPT !.academic_level = 2]}

\* evaluate_gaps(block, slot, room): it reads level_slots
EvaluateGaps ==
    /\ \E block \in GapBlocks, slot \in CMSlots, room \in AllRooms :
          last' = [op |-> "evaluate_gaps", block |-> block, slot |-> slot,
                   ret |-> evaluate_gaps(cm, block, slot, room)]
    /\ UNCHANGED <<input, state, current_assignments, pc, attempt, sorted_blocks, idx,
                   scheduled_count, best_assignments, best_score, best_count, executed,
                   runs, pipevars>>

NextGaps == CMReset \/ GapMakeAssignment \/ EvaluateGaps

SpecGaps == InitGaps /\ [][NextGaps]_vars

\* the start times recorded for the cohort of block on the day of slot
RecordedStarts(block, slot) ==
    {current_assignments[b].time_slot.start_time :
        b \in {b \in Live :
                  /\ current_assignments[b].block.academic_list = block.academic_list
                  /\ current_assignments[b].block.academic_level = block.academic_level
                  /\ current_assignments[b].time_slot.day = slot.day}}

\* the differences in hours (of the hour fields) between consecutive
\* recorded start times
ConsecutiveGaps(starts) ==
    {Hour(b) - Hour(a) : <<a, b>> \in
        {p \in starts \X starts :
            p[1] < p[2] /\ ~\E c \in starts : p[1] < c /\ c < p[2]}}

\* the score in tenths the statement gives for the recorded starts and the
\* candidate start
GapScoreOf(starts, start) ==
    IF starts = {} THEN 10
    ELSE LET max_gap == SetMax(ConsecutiveGaps(starts)
                               \cup {Abs(Hour(start) - Hour(SetMin(starts))),
                                     Abs(Hour(start) - Hour(SetMax(starts)))})
         IN IF max_gap <= 2 THEN 10 ELSE IF max_gap <= 4 THEN 5 ELSE 0

---------------------------------------------------------------------------
(* The time grid.                                                          *)

\* {Sunday..Thursday} x {09:00, 11:00, 13:00, 15:00, 17:00} minus (Monday,
\* 13:00), each slot two hours long
DefaultGrid ==
    {TimePreference(p[1], AtHour(p[2]), AtHour(p[2] + 2)) :
        p \in ((SUNDAY..THURSDAY) \X {9, 11, 13, 15, 17}) \ {<<MONDAY, 13>>}}

\* C39: with the default configuration (2-hour slots, no break) the time
\* grid is exactly the 24 slots {Sunday..Thursday} x {09:00, 11:00, 13:00,
\* 15:00, 17:00} minus (Monday, 13:00), each with end = start + 2 hours, and
\* the two generators of the grid (the resource manager's and the base
\* availability's) produce the same set of slots.
C39_DefaultTimeGrid ==
    /\ Cardinality(DefaultGrid) = 24
    /\ (/\ last.op = "generate_time_slots"
        /\ last.duration = time_slot_duration
        /\ last.break_duration = 0)
       => /\ Range(last.ret) = DefaultGrid
          /\ Len(last.ret) = 24
          /\ Range(last.ret) = Range(generate_base_availability)
    /\ last.op = "generate_base_availability"
       => /\ Range(last.ret) = DefaultGrid
          /\ Len(last.ret) = 24
          /\ Range(last.ret) = Range(generate_time_slots(time_slot_duration, 0))

\* the resource manager built its grid with the default configuration
C39_Witness ==
    /\ last.op = "generate_time_slots"
    /\ last.duration = time_slot_duration
    /\ last.break_duration = 0
    /\ Len(last.ret) = 24
    /\ TimePreference(MONDAY, AtHour(15), AtHour(17)) \in Range(last.ret)

---------------------------------------------------------------------------
(* Termination.                                                            *)

\* the guards of the five steps of schedule_blocks: the loop starts an
\* attempt while the counter is below max_attempts, a block at idx is either
\* placed or skipped and the end of the list ends the attempt, and the code
\* after the loop returns or raises
CanStep ==
    \/ pc = "loop" /\ attempt < MaxAttempts
    \/ pc = "place"
    \/ pc = "after_loop"

\* schedule_blocks is sequential code on one thread with no suspension
\* point: a step that can be taken is taken. Weak fairness of Next, with the
\* enabling condition of Next written out as the guards of its steps, and
\* weak fairness of the step after the loop.
SpecLive ==
    /\ Init
    /\ [][Next]_vars
    /\ (<>[]CanStep => []<><<Next>>_vars)
    /\ WF_vars(Finish)

\* the steps schedule_blocks has left at most: one to start each attempt
\* still to come, one per block of it, one to end it, and the step after
\* the loop
StepsLeft ==
    CASE pc = "loop" -> (MaxAttempts - attempt) * (Len(blocks) + 2) + 1
      [] pc = "place" -> (MaxAttempts - attempt - 1) * (Len(blocks) + 2)
                         + (Len(sorted_blocks) + 1 - idx) + 2
      [] pc = "after_loop" -> 1
      [] OTHER -> 0

\* C40: schedule_blocks terminates on every finite input: every attempt
\* examines each block once (each pass of the loop moves on by one block,
\* and its walk over the candidate rooms and slots ends), every step
\* brings the run nearer to its end, and the run eventually either returns
\* the best map or raises the no-schedule error.
C40_Terminates ==
    /\ [](StepsLeft >= 0)
    /\ [][StepsLeft' < StepsLeft]_vars
    /\ [][(pc = "place" /\ idx <= Len(sorted_blocks)) =>
             (pc' = "place" /\ idx' = idx + 1 /\ attempt' = attempt)]_vars
    /\ [](pc = "place" => Len(sorted_blocks) = Len(blocks) /\ attempt < MaxAttempts)
    /\ [](CanStep <=> pc \notin {"returned", "raised"})
    /\ <>(pc \in {"returned", "raised"})

\* a run has ended after max_attempts attempts, none of them perfect, in
\* each of which every block was examined
C40_Witness ==
    /\ pc \in {"returned", "raised"}
    /\ Len(executed) = MaxAttempts
    /\ attempt = MaxAttempts
    /\ Len(blocks) >= 2
    /\ idx = Len(sorted_blocks) + 1

============================================================================
